---- MODULE Spec2Model ----
(***************************************************************************)
(* Model of the standalone manga-ocr ONNX inference engine                 *)
(* (plugins/kha-white-ocr-plugin/snippet/inference_onnx.py):               *)
(* ImageProcessor.process, Tokenizer.decode, MangaOCR.__call__ and         *)
(* MangaOCR.post_process.                                                  *)
(*                                                                         *)
(* A text is a sequence of characters, a character a TLA+ string.  The     *)
(* characters the code treats specially are " " and "TAB" (whitespace),    *)
(* "ELLIPSIS" (U+2026), "MIDDLE_DOT" (U+30FB), "." and "#".                *)
(***************************************************************************)
EXTENDS Integers, Sequences, FiniteSets, TLC

\* ------------------------------------------------------------------ bounds

\* Largest max_length a configuration of the model holds.
MaxLen == 2
\* Size of the last axis of the decoder's logits (the ids argmax can return).
NumLogits == 3
\* Calls of the engine in one behaviour.
MaxCalls == 3
\* Longest text handed to post_process directly.
MaxTextLen == 5
\* Lines of a vocab.txt drawn for a tokenizer.
VocabLines == 2
\* Longest id sequence handed to decode directly.
MaxIds == 3
\* Largest width or height of an image, drawn or configured.
MaxDim == 3

\* ------------------------------------------------------------ text helpers

Whitespace == {" ", "TAB", "NL"}
DotClass == {"MIDDLE_DOT", "."}

RECURSIVE Concat(_)
\* ''.join(parts)
Concat(parts) ==
    IF parts = <<>> THEN <<>> ELSE Head(parts) \o Concat(Tail(parts))

RECURSIVE Replace(_, _, _)
\* str.replace(old, new): leftmost non-overlapping occurrences, one pass.
Replace(s, old, new) ==
    IF Len(s) < Len(old) THEN s
    ELSE IF SubSeq(s, 1, Len(old)) = old
         THEN new \o Replace(SubSeq(s, Len(old) + 1, Len(s)), old, new)
         ELSE <<Head(s)>> \o Replace(Tail(s), old, new)

RECURSIVE PrefixLen(_, _)
\* Length of the longest prefix of s whose characters are all in cls.
PrefixLen(s, cls) ==
    IF s = <<>> \/ Head(s) \notin cls THEN 0 ELSE 1 + PrefixLen(Tail(s), cls)

RECURSIVE WordLen(_)
\* Length of the longest prefix of s without a whitespace character.
WordLen(s) ==
    IF s = <<>> \/ Head(s) \in Whitespace THEN 0 ELSE 1 + WordLen(Tail(s))

RECURSIVE Split(_)
\* str.split() without arguments: the maximal runs of non-whitespace.
Split(s) ==
    LET skip == PrefixLen(s, Whitespace)
        rest == SubSeq(s, skip + 1, Len(s))
        w    == WordLen(rest)
    IN  IF rest = <<>> THEN <<>>
        ELSE <<SubSeq(rest, 1, w)>> \o Split(SubSeq(rest, w + 1, Len(rest)))

\* "." * n
Periods(n) == [i \in 1..n |-> "."]

RECURSIVE SubDotsClamped(_)
\* Variant: a run is replaced by at most three periods.
SubDotsClamped(s) ==
    IF s = <<>> THEN <<>>
    ELSE LET n == PrefixLen(s, DotClass)
         IN  IF n >= 2
             THEN Periods(IF n > 3 THEN 3 ELSE n)
                      \o SubDotsClamped(SubSeq(s, n + 1, Len(s)))
             ELSE <<Head(s)>> \o SubDotsClamped(Tail(s))

RECURSIVE SubDots(_)
\* re.sub(r"[MIDDLE_DOT.]{2,}", lambda m: "." * len(m.group()), text):
\* scanning left to right, a greedy match of two or more characters of the
\* class is replaced by as many periods, any other character is copied.
SubDots(s) ==
    IF s = <<>> THEN <<>>
    ELSE LET n == PrefixLen(s, DotClass)
         IN  IF n >= 2
             THEN Periods(n) \o SubDots(SubSeq(s, n + 1, Len(s)))
             ELSE <<Head(s)>> \o SubDots(Tail(s))

\* ------------------------------------------------- MangaOCR.post_process

\* Variant: text.lstrip(), only the leading whitespace goes.
RemoveLeadingSpaces(text) ==
    SubSeq(text, PrefixLen(text, Whitespace) + 1, Len(text))

\* "".join(text.split())
RemoveSpaces(text) == Concat(Split(text))

\* text.replace(ELLIPSIS, "...")
ReplaceEllipsis(text) == Replace(text, <<"ELLIPSIS">>, <<".", ".", ".">>)

\* Variant: the runs are left as they are.
HandleRepeatedDotsSkipped(text) == text

\* re.sub(r"[MIDDLE_DOT.]{2,}", ...)
HandleRepeatedDots(text) == SubDots(text)

\* Variant: the runs are handled before the ellipsis is replaced.
PostTextsDotsFirst(text) ==
    LET t1 == RemoveSpaces(text)
        t2 == HandleRepeatedDots(t1)
    IN  <<t1, t2, ReplaceEllipsis(t2)>>

\* The successive values of the local `text` of post_process: after line
\* 199, after line 202, after line 205.
PostTexts(text) ==
    LET t1 == RemoveSpaces(text)
        t2 == ReplaceEllipsis(t1)
    IN  <<t1, t2, HandleRepeatedDots(t2)>>

\* MangaOCR.post_process(text): the value returned.
post_process(text) == PostTexts(text)[3]

\* ------------------------------------------- base.py, the reference script

RECURSIVE BaseMatches(_, _)
\* The match objects re.sub finds for "[MIDDLE_DOT.]{2,}" in s from position
\* pos on (0-based): start and end of each greedy match, left to right.
BaseMatches(s, pos) ==
    IF pos >= Len(s) THEN <<>>
    ELSE LET n == PrefixLen(SubSeq(s, pos + 1, Len(s)), DotClass)
         IN  IF n >= 2
             THEN <<[start |-> pos, end |-> pos + n]>> \o BaseMatches(s, pos + n)
             ELSE BaseMatches(s, pos + 1)

RECURSIVE BaseSubFrom(_, _, _)
\* re.sub with lambda x: (x.end() - x.start()) * ".": the text between the
\* matches is copied, each match x gives that many periods.
BaseSubFrom(s, ms, from) ==
    IF ms = <<>> THEN SubSeq(s, from + 1, Len(s))
    ELSE SubSeq(s, from + 1, Head(ms).start)
             \o Periods(Head(ms).end - Head(ms).start)
             \o BaseSubFrom(s, Tail(ms), Head(ms).end)

\* The successive values of `text` in base.py: after line 33, 34 and 35.
BaseTexts(x) ==
    LET t1 == Concat(Split(x))
        t2 == Replace(t1, <<"ELLIPSIS">>, <<".", ".", ".">>)
    IN  <<t1, t2, BaseSubFrom(t2, BaseMatches(t2, 0), 0)>>

\* ------------------------------------------------------------- Tokenizer

\* str.strip(): leading and trailing whitespace removed.
Strip(line) ==
    LET lead == PrefixLen(line, Whitespace)
        rest == SubSeq(line, lead + 1, Len(line))
        last == {i \in 1..Len(rest) : rest[i] \notin Whitespace}
    IN  IF last = {} THEN <<>>
        ELSE SubSeq(rest, 1, CHOOSE i \in last : \A j \in last : j <= i)

\* Variant: a token already in vocab keeps its first idx.
LoadVocabFirstWins(lines) ==
    LET toks == {Strip(lines[i]) : i \in 1..Len(lines)}
    IN  [t \in toks |->
            CHOOSE idx \in 0..(Len(lines) - 1) :
                /\ Strip(lines[idx + 1]) = t
                /\ \A j \in 0..(Len(lines) - 1) :
                       Strip(lines[j + 1]) = t => idx <= j]

\* The loop of Tokenizer.__init__ over the lines of vocab.txt: line idx
\* (0-based) gives id_to_token[idx]; vocab[token] keeps the last idx that
\* held the token.
LoadIdToToken(lines) == [idx \in 0..(Len(lines) - 1) |-> Strip(lines[idx + 1])]

LoadVocab(lines) ==
    LET toks == {Strip(lines[i]) : i \in 1..Len(lines)}
    IN  [t \in toks |->
            CHOOSE idx \in 0..(Len(lines) - 1) :
                /\ Strip(lines[idx + 1]) = t
                /\ \A j \in 0..(Len(lines) - 1) :
                       Strip(lines[j + 1]) = t => j <= idx]

SpecialNames == {"pad", "unk", "cls", "sep", "mask"}

\* special_token_set: the five configured token strings.
SpecialTokenSet(special_tokens) ==
    {special_tokens[n].token : n \in SpecialNames}

\* Tokenizer.__init__(vocab_path, config)
NewTokenizer(lines, cfg) ==
    [vocab             |-> LoadVocab(lines),
     id_to_token       |-> LoadIdToToken(lines),
     special_tokens    |-> cfg.special_tokens,
     pad_token_id      |-> cfg.special_tokens["pad"].id,
     unk_token_id      |-> cfg.special_tokens["unk"].id,
     cls_token_id      |-> cfg.special_tokens["cls"].id,
     sep_token_id      |-> cfg.special_tokens["sep"].id,
     mask_token_id     |-> cfg.special_tokens["mask"].id,
     special_token_set |-> SpecialTokenSet(cfg.special_tokens)]

RECURSIVE KeptTokensStopAtUnknown(_, _, _)
\* Variant: an id missing from id_to_token ends the loop instead of being
\* skipped.
KeptTokensStopAtUnknown(tk, token_ids, skip_special_tokens) ==
    IF token_ids = <<>> THEN <<>>
    ELSE LET token_id == Head(token_ids)
         IN  IF token_id \in DOMAIN tk.id_to_token
             THEN LET token == tk.id_to_token[token_id]
                      rest  == KeptTokensStopAtUnknown(tk, Tail(token_ids),
                                                       skip_special_tokens)
                  IN  IF skip_special_tokens /\ token \in tk.special_token_set
                      THEN rest
                      ELSE <<token>> \o rest
             ELSE <<>>

\* Variant: a token is skipped when its id is one of the configured
\* special-token ids.
IsSpecialById(tk, token_id, token) ==
    token_id \in {tk.pad_token_id, tk.unk_token_id, tk.cls_token_id,
                  tk.sep_token_id, tk.mask_token_id}

\* token in self.special_token_set
IsSpecial(tk, token_id, token) == token \in tk.special_token_set

RECURSIVE KeptTokens(_, _, _)
\* The loop of Tokenizer.decode: the tokens appended to `tokens`.
KeptTokens(tk, token_ids, skip_special_tokens) ==
    IF token_ids = <<>> THEN <<>>
    ELSE LET token_id == Head(token_ids)
             rest     == KeptTokens(tk, Tail(token_ids), skip_special_tokens)
         IN  IF token_id \in DOMAIN tk.id_to_token
             THEN LET token == tk.id_to_token[token_id]
                  IN  IF skip_special_tokens /\ IsSpecial(tk, token_id, token)
                      THEN rest
                      ELSE <<token>> \o rest
             ELSE rest

Marker == <<"#", "#">>

\* Variant: text.replace('##', '', 1), only the first occurrence goes.
RemoveFirstMarker(text) ==
    IF \E i \in 1..(Len(text) - 1) : SubSeq(text, i, i + 1) = Marker
    THEN LET i == CHOOSE i \in 1..(Len(text) - 1) :
                      /\ SubSeq(text, i, i + 1) = Marker
                      /\ \A j \in 1..(i - 1) : SubSeq(text, j, j + 1) # Marker
         IN  SubSeq(text, 1, i - 1) \o SubSeq(text, i + 2, Len(text))
    ELSE text

\* text.replace('##', '')
RemoveMarkers(text) == Replace(text, Marker, <<>>)

\* The locals of Tokenizer.decode: `tokens` after the loop, `text` after
\* the join and after the replace.
DecodeLocals(tk, token_ids, skip_special_tokens) ==
    LET tokens == KeptTokens(tk, token_ids, skip_special_tokens)
        joined == Concat(tokens)
    IN  [tokens |-> tokens, joined |-> joined, text |-> RemoveMarkers(joined)]

\* Tokenizer.decode(token_ids, skip_special_tokens): the value returned.
decode(tk, token_ids, skip_special_tokens) ==
    DecodeLocals(tk, token_ids, skip_special_tokens).text

\* -------------------------------------------------------- ImageProcessor

\* Number of bands of a PIL mode.
Bands(mode) ==
    CASE mode = "1" -> 1
      [] mode = "L" -> 1
      [] mode = "P" -> 1
      [] mode = "RGB" -> 3
      [] mode = "RGBA" -> 4
      [] mode = "CMYK" -> 4

\* An image is [mode, size = <<width, height>>, pixels]; pixels stands for
\* the content: the source's name and the operations applied to it.
PixelOp(op, mode, size) == [op |-> op, mode |-> mode, size |-> size]

\* Image.convert(mode)
Convert(image, mode) ==
    [image EXCEPT !.mode = mode,
                  !.pixels = Append(@, PixelOp("convert", mode, <<>>))]

\* Image.resize(size, BILINEAR): size is (width, height).
Resize(image, size) ==
    [image EXCEPT !.size = size,
                  !.pixels = Append(@, PixelOp("resize", "", size))]

\* np.array(image, dtype): height x width, and a band axis when the mode
\* has more than one band.
AsArray(image, dtype) ==
    [shape |-> IF Bands(image.mode) = 1
               THEN <<image.size[2], image.size[1]>>
               ELSE <<image.size[2], image.size[1], Bands(image.mode)>>,
     dtype |-> dtype,
     data  |-> image.pixels]

\* Shape of a binary operation of an array with a 1-d array of length n
\* (numpy broadcasting over the last axis); <<>> stands for ValueError.
BroadcastLast(shape, n) ==
    IF shape = <<>> THEN <<>>
    ELSE LET l == shape[Len(shape)]
         IN  IF l = n \/ n = 1 THEN shape
             ELSE IF l = 1 THEN [shape EXCEPT ![Len(shape)] = n]
             ELSE <<>>

\* (array - mean) / std with float64 vectors of the two lengths.
Normalize(a, mean_len, std_len) ==
    [a EXCEPT !.shape = BroadcastLast(BroadcastLast(a.shape, mean_len), std_len),
              !.dtype = "float64",
              !.data  = Append(@, PixelOp("normalize", "", <<>>))]

\* array * rescale_factor (a Python float keeps the dtype).
Rescale(a) == [a EXCEPT !.data = Append(@, PixelOp("rescale", "", <<>>))]

\* np.transpose(a, axes), axes 0-based; <<>> stands for ValueError.
Transpose(a, axes) ==
    [a EXCEPT !.shape = IF Len(axes) = Len(a.shape)
                        THEN [i \in 1..Len(axes) |-> a.shape[axes[i] + 1]]
                        ELSE <<>>]

\* np.expand_dims(a, axis=0)
ExpandDims0(a) == [a EXCEPT !.shape = <<1>> \o @]

AsType(a, dtype) == [a EXCEPT !.dtype = dtype]

\* ImageProcessor.__init__ keeps image_size as a tuple, and the mean and
\* std vectors.
NewImageProcessor(cfg) ==
    [image_size |-> cfg.preprocessor.image_size,
     mean_len   |-> cfg.preprocessor.mean_len,
     std_len    |-> cfg.preprocessor.std_len]

\* Variant: the configured pair is read as (height, width).
ResizedSwapped(pr, image) ==
    Resize(image, <<pr.image_size[2], pr.image_size[1]>>)

\* image.resize(self.image_size, BILINEAR)
Resized(pr, image) == Resize(image, pr.image_size)

\* ImageProcessor.process(image)
process(pr, image) ==
    LET rgb  == IF image.mode # "RGB" THEN Convert(image, "RGB") ELSE image
        arr  == AsArray(Resized(pr, rgb), "float32")
        norm == Normalize(Rescale(arr), pr.mean_len, pr.std_len)
    IN  AsType(ExpandDims0(Transpose(norm, <<2, 0, 1>>)), "float32")

\* --------------------------------------------------- artifacts of a model

\* Lines of a vocab.txt: "[P]", "[S]", "a".
SampleVocabLines ==
    << <<"[", "P", "]", "NL">>, <<"[", "S", "]", "NL">>, <<"a", "NL">> >>

SampleSpecialTokens ==
    [n \in SpecialNames |->
        IF n \in {"cls", "sep"}
        THEN [id |-> 1, token |-> <<"[", "S", "]">>]
        ELSE [id |-> 0, token |-> <<"[", "P", "]">>]]

\* A config.json; mean_len and std_len are the lengths of image_mean and
\* image_std.
SampleConfig(image_size, start, eos, maxlen) ==
    [preprocessor   |-> [image_size |-> image_size, mean_len |-> 3, std_len |-> 3],
     model          |-> [decoder_start_token_id |-> start,
                         eos_token_id           |-> eos,
                         max_length             |-> maxlen],
     special_tokens |-> SampleSpecialTokens]

\* The configurations an engine of the model is constructed from.
EngineConfigs ==
    {SampleConfig(<<2, 1>>, start, 1, maxlen) :
        start \in {0, 1}, maxlen \in (0 - 1)..MaxLen}

\* The images a caller passes.
Images ==
    {[mode |-> "RGB", size |-> <<3, 2>>, pixels |-> << PixelOp("imgA", "", <<>>) >>],
     [mode |-> "L",   size |-> <<1, 1>>, pixels |-> << PixelOp("imgB", "", <<>>) >>]}

\* Values an encoder output can take.
Hiddens == {"h1", "h2"}

\* Ids the decoder's logits range over.
TokenIds == 0..(NumLogits - 1)

\* Rows of logits a decoder run can give for one position: a single peak
\* at any id, or a tie of all ids but 0.
LogitRows ==
    {[j \in TokenIds |-> IF j = i THEN 1 ELSE 0] : i \in TokenIds}
        \cup {[j \in TokenIds |-> IF j = 0 THEN 0 ELSE 1]}

\* ------------------------------------------------------------------ state

VARIABLES
    \* MangaOCR instance
    config, processor, tokenizer, encoder_session, decoder_session,
    decoder_start_token_id, eos_token_id, max_length,
    \* frame of MangaOCR.__call__
    pc, image_path, image, pixel_values, encoder_outputs, generated_ids,
    step, loop_exit, text,
    \* the exception that ended the call
    error,
    \* session runs of the current call, calls made, calls returned, calls
    \* that raised
    runs, calls, returned, failures,
    \* the model directory, the position in MangaOCR.__init__, the exception
    \* that ended it, and the engine the caller holds once it returned
    artifacts, init_pc, init_error, ocr,
    \* the thread whose frame the frame variables hold, and the frames of
    \* the other threads
    thread, parked,
    \* a direct call of process, decode or post_process: name, arguments,
    \* values of its locals, result
    op, arg, locals, ret,
    \* BuildScript.desktop_dev: the platform and the disposition of SIGTERM
    \* the script runs under, its position, the process Popen started, the
    \* invocations of cleanup_frontend, the caller of the current one, what
    \* the try statement does after its finally clause, and how the call ended
    platform, sigterm, dev_pc, frontend_process, cleanups, caller, pending,
    dev_ret

instanceVars == <<config, processor, tokenizer, decoder_start_token_id,
                  eos_token_id, max_length>>
sessionVars == <<encoder_session, decoder_session>>
frameVars == <<pc, image_path, image, pixel_values, encoder_outputs,
               generated_ids, step, loop_exit, text, error>>
historyVars == <<runs, calls, returned, failures>>
directVars == <<op, arg, locals, ret>>
constructVars == <<artifacts, init_pc, init_error, ocr>>
threadVars == <<thread, parked>>
buildVars == <<platform, sigterm, dev_pc, frontend_process, cleanups, caller,
               pending, dev_ret>>
vars == <<instanceVars, sessionVars, frameVars, historyVars, directVars,
          constructVars, threadVars, buildVars>>

None == "None"
EmptyGraph == [k \in {} |-> None]

\* The threads that call the engine.
Threads == {"t1", "t2"}

\* A model directory holding config.json with content cfg, vocab.txt with
\* the given lines, encoder.onnx and decoder.onnx.
ModelDir(cfg, lines) ==
    [config  |-> [status |-> "ok", value |-> cfg],
     vocab   |-> [status |-> "ok", lines |-> lines],
     encoder |-> "ok",
     decoder |-> "ok"]

\* MangaOCR.__init__ from a configuration and the lines of vocab.txt; a
\* session is the part of the function its graph computes that runs have
\* shown so far.
Constructed(cfg, lines) ==
    /\ config = cfg
    /\ processor = NewImageProcessor(cfg)
    /\ tokenizer = NewTokenizer(lines, cfg)
    /\ encoder_session = EmptyGraph
    /\ decoder_session = EmptyGraph
    /\ decoder_start_token_id = cfg.model.decoder_start_token_id
    /\ eos_token_id = cfg.model.eos_token_id
    /\ max_length = cfg.model.max_length
    /\ artifacts = ModelDir(cfg, lines)
    /\ init_pc = "done"
    /\ init_error = None
    /\ ocr = "MangaOCR"

\* The locals of a call of __call__ that has not started.
IdleFrame ==
    [pc |-> "idle", image_path |-> None, image |-> None, pixel_values |-> None,
     encoder_outputs |-> None, generated_ids |-> <<>>, step |-> 0,
     loop_exit |-> None, text |-> None, error |-> None, runs |-> <<>>]

NoFrame ==
    /\ pc = "idle"
    /\ image_path = None
    /\ image = None
    /\ pixel_values = None
    /\ encoder_outputs = None
    /\ generated_ids = <<>>
    /\ step = 0
    /\ loop_exit = None
    /\ text = None
    /\ error = None
    /\ runs = <<>>
    /\ calls = 0
    /\ returned = <<>>
    /\ failures = <<>>
    /\ thread = "t1"
    /\ parked = [t \in Threads |-> IdleFrame]

NoDirect ==
    /\ op = None
    /\ arg = None
    /\ locals = None
    /\ ret = None

\* The build script is not running.
NoBuild ==
    /\ platform = None
    /\ sigterm = None
    /\ dev_pc = None
    /\ frontend_process = None
    /\ cleanups = 0
    /\ caller = None
    /\ pending = None
    /\ dev_ret = None

Init ==
    /\ \E cfg \in EngineConfigs : Constructed(cfg, SampleVocabLines)
    /\ NoFrame
    /\ NoDirect
    /\ NoBuild

\* ------------------------------------------------------ MangaOCR.__call__

\* Variant: the last index of the maximum.
ArgmaxLast(row) ==
    CHOOSE i \in DOMAIN row :
        /\ \A j \in DOMAIN row : row[j] <= row[i]
        /\ \A j \in DOMAIN row : row[j] = row[i] => j <= i

\* np.argmax: the first index of the maximum.
Argmax(row) ==
    CHOOSE i \in DOMAIN row :
        /\ \A j \in DOMAIN row : row[j] <= row[i]
        /\ \A j \in DOMAIN row : row[j] = row[i] => i <= j

\* Variant: the mask hides the first position.
OnesLikeButFirst(a) == [r \in DOMAIN a |-> [c \in DOMAIN a[r] |-> IF c = 1 THEN 0 ELSE 1]]

\* np.ones_like(input_ids)
OnesLike(a) == [r \in DOMAIN a |-> [c \in DOMAIN a[r] |-> 1]]

\* The argument x of __call__ is a str or a Path: line 140. A path stands as
\* an image of mode "str" whose one pixel entry names the file and holds the
\* mode and the size of the image in it.
IsPath(x) == x.mode = "str"

\* Image.open(image_path): line 141.
Open(x) ==
    [mode   |-> x.pixels[1].mode,
     size   |-> x.pixels[1].size,
     pixels |-> Append(x.pixels, PixelOp("open", "", <<>>))]

\* Lines 140-143: a path is opened, an image is taken as it is.
Loaded(x) ==
    IF IsPath(x) THEN Open(x) ELSE x

\* Variant: an image that is RGB already is left as it is.
RoundTripUnlessRGB(img) ==
    IF img.mode = "RGB" THEN img ELSE Convert(Convert(img, "L"), "RGB")

\* image.convert("L").convert("RGB"): line 146.
RoundTrip(img) == Convert(Convert(img, "L"), "RGB")

\* Entry of the image: lines 139-149.
Call(img) ==
    /\ ocr # None
    /\ pc \in {"idle", "returned", "raised"}
    /\ calls < MaxCalls
    /\ error' = None
    /\ calls' = calls + 1
    /\ image_path' = img
    /\ image' = RoundTrip(Loaded(img))
    /\ pixel_values' = process(processor, image')
    /\ pc' = "run_encoder"
    /\ encoder_outputs' = None
    /\ generated_ids' = <<>>
    /\ step' = 0
    /\ loop_exit' = None
    /\ text' = None
    /\ runs' = <<>>
    /\ UNCHANGED <<instanceVars, sessionVars, returned, failures, directVars, buildVars,
                   constructVars, threadVars>>

\* Variant: the sequence starts with the id of the [CLS] token.
InitialIdsFromCls == <<tokenizer.cls_token_id>>

\* generated_ids = [self.decoder_start_token_id]: line 161.
InitialIds == <<decoder_start_token_id>>

\* The encoder run and the start of the generated sequence: lines 151-161.
RunEncoder ==
    /\ pc = "run_encoder"
    /\ \E h \in Hiddens :
        /\ pixel_values \in DOMAIN encoder_session => h = encoder_session[pixel_values]
        /\ encoder_session' = (pixel_values :> h) @@ encoder_session
        /\ encoder_outputs' = h
        /\ runs' = Append(runs, [session |-> "encoder",
                                 inputs  |-> [pixel_values |-> pixel_values],
                                 ok      |-> TRUE,
                                 output  |-> h])
    /\ generated_ids' = InitialIds
    /\ step' = 0
    /\ pc' = "loop"
    /\ UNCHANGED <<instanceVars, decoder_session, image_path, image,
                   pixel_values, loop_exit, text, error, calls, returned,
                   failures, directVars, buildVars, constructVars, threadVars>>

\* The logits of a decoder run, [1, n, NumLogits], under graph g: position j
\* holds the row for the first j input ids.
Logits(g, inputs) ==
    << [j \in 1..Len(inputs.input_ids[1]) |->
           g[<<inputs.encoder_hidden_states, SubSeq(inputs.input_ids[1], 1, j)>>]] >>

\* The keys a decoder run on `inputs` reads from the graph.
DecoderKeys(inputs) ==
    {<<inputs.encoder_hidden_states, SubSeq(inputs.input_ids[1], 1, j)>> :
        j \in 1..Len(inputs.input_ids[1])}

\* Variant: the hidden states are not those of this call's encoder run.
DecoderInputsStale ==
    LET input_ids == <<generated_ids>>
    IN  [input_ids             |-> input_ids,
         encoder_hidden_states |-> "h1",
         attention_mask        |-> OnesLike(input_ids)]

\* The inputs of the decoder run of one iteration: lines 165-175.
DecoderInputs ==
    LET input_ids == <<generated_ids>>
    IN  [input_ids             |-> input_ids,
         encoder_hidden_states |-> encoder_outputs,
         attention_mask        |-> OnesLike(input_ids)]

\* Variant: the id is drawn with a generator whose state moves on with
\* every call.
NextTokenIdSampled(logits) ==
    (Argmax(logits[1][Len(logits[1])]) + calls) % NumLogits

\* logits[0, -1, :] then argmax: line 179.
NextTokenId(logits) == Argmax(logits[1][Len(logits[1])])

\* Variant: the loop has no break.
IsEosNever(next_token_id) == FALSE

\* Variant: the loop also stops on the pad id.
IsEosOrPad(next_token_id) ==
    next_token_id \in {eos_token_id, tokenizer.pad_token_id}

\* Variant: the id is compared with the start token id.
IsStartToken(next_token_id) == next_token_id = decoder_start_token_id

\* next_token_id == self.eos_token_id: line 183.
IsEos(next_token_id) == next_token_id = eos_token_id

\* Variant: range(max_length + 1).
InRangeInclusive(i) == i <= max_length

\* step in range(self.max_length): line 163.
InRange(i) == i < max_length

\* One iteration of the loop: lines 163-186.
DecodeStep ==
    /\ pc = "loop"
    /\ InRange(step)
    /\ LET inputs == DecoderInputs
           new    == DecoderKeys(inputs) \ DOMAIN decoder_session
       IN  \E shown \in [new -> LogitRows] :
             LET g             == shown @@ decoder_session
                 logits        == Logits(g, inputs)
                 next_token_id == NextTokenId(logits)
             IN  /\ decoder_session' = g
                 /\ runs' = Append(runs, [session |-> "decoder",
                                          inputs  |-> inputs,
                                          ok      |-> TRUE,
                                          output  |-> logits])
                 /\ generated_ids' = Append(generated_ids, next_token_id)
                 /\ IF IsEos(next_token_id)
                    THEN /\ pc' = "after_loop"
                         /\ loop_exit' = "break"
                         /\ step' = step
                    ELSE /\ pc' = "loop"
                         /\ loop_exit' = loop_exit
                         /\ step' = step + 1
    /\ UNCHANGED <<instanceVars, encoder_session, image_path, image,
                   pixel_values, encoder_outputs, text, error, calls, returned,
                   failures, directVars, buildVars, constructVars, threadVars>>

\* range(max_length) is exhausted: the for statement ends.
LoopExhausted ==
    /\ pc = "loop"
    /\ ~InRange(step)
    /\ pc' = "after_loop"
    /\ loop_exit' = "exhausted"
    /\ UNCHANGED <<instanceVars, sessionVars, image_path, image, pixel_values,
                   encoder_outputs, generated_ids, step, text, error, historyVars,
                   directVars, buildVars, constructVars, threadVars>>

\* Variant: every occurrence of the start token id is dropped.
WithoutStartId(ids) ==
    SelectSeq(ids, LAMBDA id : id # decoder_start_token_id)

\* generated_ids[1:]: line 189.
Remainder(ids) == Tail(ids)

\* Decoding, post-processing and return: lines 188-194.
Finish ==
    /\ pc = "after_loop"
    /\ text' = post_process(decode(tokenizer, Remainder(generated_ids), TRUE))
    /\ pc' = "returned"
    /\ returned' = Append(returned, [image  |-> image_path,
                                     ids    |-> generated_ids,
                                     exit   |-> loop_exit,
                                     result |-> text'])
    /\ UNCHANGED <<instanceVars, sessionVars, image_path, image, pixel_values,
                   encoder_outputs, generated_ids, step, loop_exit, error, runs,
                   calls, failures, directVars, buildVars, constructVars, threadVars>>

Next ==
    \/ \E img \in Images : Call(img)
    \/ RunEncoder
    \/ DecodeStep
    \/ LoopExhausted
    \/ Finish

Spec == Init /\ [][Next]_vars

\* ------------------------------------------------------- calls that raise

\* Files handed to the engine that PIL does not turn into an image: one
\* Image.open does not identify, one whose pixel data is cut short and
\* fails when convert loads it.
BadImages ==
    {[mode |-> "", size |-> <<0, 0>>, pixels |-> << PixelOp("unidentified", "", <<>>) >>],
     [mode |-> "RGB", size |-> <<3, 2>>, pixels |-> << PixelOp("truncated", "", <<>>) >>]}

\* Variant: the failure is reported as a failure of a graph run.
ImageErrorAsRuntime(img) == "onnxruntime.RuntimeException"

\* The exception PIL raises on such a file: Image.open at line 141 or
\* convert at line 146.
ImageError(img) ==
    IF img.pixels[1].op = "unidentified"
    THEN "PIL.UnidentifiedImageError"
    ELSE "OSError"

\* Variant: the statement that raised is run again.
AfterRaiseRetry(at) == at

\* Where control is after a statement of __call__ raised at position `at`:
\* no try statement encloses it, the exception leaves __call__.
AfterRaise(at) == "raised"

\* Variant: a failed run leaves the session without its graph.
AfterFailedRunCleared(g) == EmptyGraph

\* The session after a run that raised: session.run gives no outputs and
\* the session is the one it was (lines 152 and 169, no handler).
AfterFailedRun(g) == g

\* __call__ on a file that is no image: lines 139-146 raise, nothing after
\* them runs.
CallUndecodable(img) ==
    /\ ocr # None
    /\ pc \in {"idle", "returned", "raised"}
    /\ calls < MaxCalls
    /\ calls' = calls + 1
    /\ image_path' = img
    /\ image' = None
    /\ pixel_values' = None
    /\ encoder_outputs' = None
    /\ generated_ids' = <<>>
    /\ step' = 0
    /\ loop_exit' = None
    /\ text' = None
    /\ runs' = <<>>
    /\ pc' = AfterRaise("idle")
    /\ error' = ImageError(img)
    /\ failures' = Append(failures, [image |-> img, error |-> error',
                                     runs  |-> 0])
    /\ UNCHANGED <<instanceVars, sessionVars, returned, directVars, buildVars,
                   constructVars, threadVars>>

\* encoder_session.run raises at line 152: the exception leaves __call__.
EncoderFails ==
    /\ pc = "run_encoder"
    /\ encoder_session' = AfterFailedRun(encoder_session)
    /\ runs' = Append(runs, [session |-> "encoder",
                             inputs  |-> [pixel_values |-> pixel_values],
                             ok      |-> FALSE,
                             output  |-> None])
    /\ pc' = AfterRaise(pc)
    /\ error' = "onnxruntime.RuntimeException"
    /\ failures' = Append(failures, [image |-> image_path, error |-> error',
                                     runs  |-> Len(runs')])
    /\ UNCHANGED <<instanceVars, decoder_session, image_path, image,
                   pixel_values, encoder_outputs, generated_ids, step,
                   loop_exit, text, calls, returned, directVars, buildVars,
                   constructVars, threadVars>>

\* decoder_session.run raises at line 169 in an iteration of the loop: the
\* exception leaves the loop and __call__.
DecoderFails ==
    /\ pc = "loop"
    /\ InRange(step)
    /\ decoder_session' = AfterFailedRun(decoder_session)
    /\ runs' = Append(runs, [session |-> "decoder",
                             inputs  |-> DecoderInputs,
                             ok      |-> FALSE,
                             output  |-> <<>>])
    /\ pc' = AfterRaise(pc)
    /\ error' = "onnxruntime.RuntimeException"
    /\ failures' = Append(failures, [image |-> image_path, error |-> error',
                                     runs  |-> Len(runs')])
    /\ UNCHANGED <<instanceVars, encoder_session, image_path, image,
                   pixel_values, encoder_outputs, generated_ids, step,
                   loop_exit, text, calls, returned, directVars, buildVars,
                   constructVars, threadVars>>

\* Engines of every start token and of max_length 0 to MaxLen, whose calls
\* can raise.
InitFail ==
    /\ \E cfg \in EngineConfigs :
           /\ cfg.model.max_length >= 0
           /\ Constructed(cfg, SampleVocabLines)
    /\ NoFrame
    /\ NoDirect
    /\ NoBuild

\* The image the calls that can raise are made on.
GoodImages == {img \in Images : img.mode = "RGB"}

NextFail ==
    \/ \E img \in GoodImages : Call(img)
    \/ \E img \in BadImages : CallUndecodable(img)
    \/ RunEncoder
    \/ EncoderFails
    \/ DecodeStep
    \/ DecoderFails
    \/ LoopExhausted
    \/ Finish

SpecFail == InitFail /\ [][NextFail]_vars

\* ------------------------------------------------------ concurrent calls

\* The locals of the call the running thread is in.
CurrentFrame ==
    [pc |-> pc, image_path |-> image_path, image |-> image,
     pixel_values |-> pixel_values, encoder_outputs |-> encoder_outputs,
     generated_ids |-> generated_ids, step |-> step, loop_exit |-> loop_exit,
     text |-> text, error |-> error, runs |-> runs]

\* Variant: generated_ids is one list all calls of the engine share.
ResumeSharedIds(f) == [f EXCEPT !.generated_ids = generated_ids]

\* The locals a thread finds when it runs again: those it had, every one of
\* them being a local of its own frame of __call__ (lines 139-192).
Resume(f) == f

\* The interpreter passes from the running thread to thread t.
Switch(t) ==
    /\ t \in Threads
    /\ t # thread
    /\ thread' = t
    /\ parked' = [parked EXCEPT ![thread] = CurrentFrame, ![t] = IdleFrame]
    /\ LET f == Resume(parked[t])
       IN  /\ pc' = f.pc
           /\ image_path' = f.image_path
           /\ image' = f.image
           /\ pixel_values' = f.pixel_values
           /\ encoder_outputs' = f.encoder_outputs
           /\ generated_ids' = f.generated_ids
           /\ step' = f.step
           /\ loop_exit' = f.loop_exit
           /\ text' = f.text
           /\ error' = f.error
           /\ runs' = f.runs
    /\ UNCHANGED <<instanceVars, sessionVars, calls, returned, failures,
                   directVars, buildVars, constructVars>>

\* One engine of max_length MaxLen called from two threads.
InitConcurrent ==
    /\ Constructed(SampleConfig(<<2, 1>>, 0, 1, MaxLen), SampleVocabLines)
    /\ NoFrame
    /\ NoDirect
    /\ NoBuild

\* Each thread makes one call.
NextConcurrent ==
    \/ \E t \in Threads : Switch(t)
    \/ \E img \in Images : pc = "idle" /\ Call(img)
    \/ RunEncoder
    \/ DecodeStep
    \/ LoopExhausted
    \/ Finish

SpecConcurrent == InitConcurrent /\ [][NextConcurrent]_vars

\* ---------------------------------------------------- MangaOCR.__init__

\* Top-level keys of config.json that __init__ reads.
ConfigKeys == {"preprocessor", "special_tokens", "model"}

\* The content of a config.json that lacks the keys in `missing`.
PartialConfig(cfg, missing) == [k \in DOMAIN cfg \ missing |-> cfg[k]]

\* The model directories an engine is constructed from: config.json is
\* absent, is not JSON, or holds any subset of the keys; vocab.txt is there
\* or not; each graph file is there, absent, or not a loadable graph.
ArtifactDirs ==
    LET cfg == SampleConfig(<<2, 1>>, 0, 1, 1)
        configs ==
            {[status |-> st, value |-> cfg] : st \in {"absent", "malformed"}}
                \cup {[status |-> "ok", value |-> PartialConfig(cfg, m)] :
                          m \in SUBSET ConfigKeys}
        vocabs ==
            {[status |-> "ok", lines |-> SampleVocabLines],
             [status |-> "absent", lines |-> <<>>]}
        graphs == {"ok", "absent", "invalid"}
    IN  {[config |-> c, vocab |-> v, encoder |-> e, decoder |-> d] :
            c \in configs, v \in vocabs, e \in graphs, d \in graphs}

\* open and json.load of config.json: lines 112-113.
ConfigError(dir) ==
    CASE dir.config.status = "absent"    -> "FileNotFoundError"
      [] dir.config.status = "malformed" -> "json.JSONDecodeError"
      [] OTHER                           -> None

\* ImageProcessor.__init__ reads config['preprocessor']: lines 21-24.
ProcessorError(cfg) ==
    IF "preprocessor" \in DOMAIN cfg THEN None ELSE "KeyError"

\* Variant: the special tokens are read before vocab.txt is opened.
TokenizerErrorKeysFirst(dir, cfg) ==
    IF "special_tokens" \notin DOMAIN cfg THEN "KeyError"
    ELSE IF dir.vocab.status = "absent" THEN "FileNotFoundError"
    ELSE None

\* Tokenizer.__init__ opens vocab.txt (line 62) and then reads
\* config['special_tokens'] (line 69).
TokenizerError(dir, cfg) ==
    IF dir.vocab.status = "absent" THEN "FileNotFoundError"
    ELSE IF "special_tokens" \notin DOMAIN cfg THEN "KeyError"
    ELSE None

\* Variant: a file that holds no graph is only found out when it is run.
SessionErrorLazy(graph) ==
    IF graph = "absent" THEN "onnxruntime.NoSuchFile" ELSE None

\* ort.InferenceSession on a graph file: lines 121-128.
SessionError(graph) ==
    CASE graph = "absent"  -> "onnxruntime.NoSuchFile"
      [] graph = "invalid" -> "onnxruntime.InvalidProtobuf"
      [] OTHER             -> None

\* config['model'][...]: lines 131-133.
ParamsError(cfg) ==
    IF "model" \in DOMAIN cfg THEN None ELSE "KeyError"

\* An exception leaves __init__: the caller's assignment does not happen.
InitRaises(exc) ==
    /\ init_pc' = "raised"
    /\ init_error' = exc
    /\ ocr' = ocr

\* Lines 109-113.
LoadConfig ==
    /\ init_pc = "start"
    /\ IF ConfigError(artifacts) # None
       THEN /\ InitRaises(ConfigError(artifacts))
            /\ config' = config
       ELSE /\ config' = artifacts.config.value
            /\ init_pc' = "processor"
            /\ UNCHANGED <<init_error, ocr>>
    /\ UNCHANGED <<processor, tokenizer, decoder_start_token_id, eos_token_id,
                   max_length, sessionVars, frameVars, historyVars,
                   directVars, buildVars, artifacts, threadVars>>

\* Line 116.
InitProcessor ==
    /\ init_pc = "processor"
    /\ IF ProcessorError(config) # None
       THEN /\ InitRaises(ProcessorError(config))
            /\ processor' = processor
       ELSE /\ processor' = NewImageProcessor(config)
            /\ init_pc' = "tokenizer"
            /\ UNCHANGED <<init_error, ocr>>
    /\ UNCHANGED <<config, tokenizer, decoder_start_token_id, eos_token_id,
                   max_length, sessionVars, frameVars, historyVars,
                   directVars, buildVars, artifacts, threadVars>>

\* Line 117.
InitTokenizer ==
    /\ init_pc = "tokenizer"
    /\ IF TokenizerError(artifacts, config) # None
       THEN /\ InitRaises(TokenizerError(artifacts, config))
            /\ tokenizer' = tokenizer
       ELSE /\ tokenizer' = NewTokenizer(artifacts.vocab.lines, config)
            /\ init_pc' = "encoder"
            /\ UNCHANGED <<init_error, ocr>>
    /\ UNCHANGED <<config, processor, decoder_start_token_id, eos_token_id,
                   max_length, sessionVars, frameVars, historyVars,
                   directVars, buildVars, artifacts, threadVars>>

\* Lines 121-124.
LoadEncoder ==
    /\ init_pc = "encoder"
    /\ IF SessionError(artifacts.encoder) # None
       THEN InitRaises(SessionError(artifacts.encoder))
       ELSE /\ init_pc' = "decoder"
            /\ UNCHANGED <<init_error, ocr>>
    /\ UNCHANGED <<instanceVars, sessionVars, frameVars, historyVars,
                   directVars, buildVars, artifacts, threadVars>>

\* Lines 125-128.
LoadDecoder ==
    /\ init_pc = "decoder"
    /\ IF SessionError(artifacts.decoder) # None
       THEN InitRaises(SessionError(artifacts.decoder))
       ELSE /\ init_pc' = "params"
            /\ UNCHANGED <<init_error, ocr>>
    /\ UNCHANGED <<instanceVars, sessionVars, frameVars, historyVars,
                   directVars, buildVars, artifacts, threadVars>>

\* Lines 131-135 and the return to the caller, who now holds the engine.
ReadParams ==
    /\ init_pc = "params"
    /\ IF ParamsError(config) # None
       THEN /\ InitRaises(ParamsError(config))
            /\ UNCHANGED <<decoder_start_token_id, eos_token_id, max_length>>
       ELSE /\ decoder_start_token_id' = config.model.decoder_start_token_id
            /\ eos_token_id' = config.model.eos_token_id
            /\ max_length' = config.model.max_length
            /\ init_pc' = "done"
            /\ ocr' = "MangaOCR"
            /\ UNCHANGED init_error
    /\ UNCHANGED <<config, processor, tokenizer, sessionVars, frameVars,
                   historyVars, directVars, buildVars, artifacts, threadVars>>

\* MangaOCR(model_dir) is about to run on any of the model directories.
InitConstruct ==
    /\ artifacts \in ArtifactDirs
    /\ init_pc = "start"
    /\ init_error = None
    /\ ocr = None
    /\ config = None
    /\ processor = None
    /\ tokenizer = None
    /\ encoder_session = EmptyGraph
    /\ decoder_session = EmptyGraph
    /\ decoder_start_token_id = None
    /\ eos_token_id = None
    /\ max_length = None
    /\ NoFrame
    /\ NoDirect
    /\ NoBuild

NextConstruct ==
    \/ LoadConfig
    \/ InitProcessor
    \/ InitTokenizer
    \/ LoadEncoder
    \/ LoadDecoder
    \/ ReadParams
    \/ Next

SpecConstruct == InitConstruct /\ [][NextConstruct]_vars

\* ------------------------------------- construction with any max_length

\* The model directories whose config.json gives max_length a negative
\* value, zero or a positive one; everything else is in place.
LimitDirs ==
    {ModelDir(SampleConfig(<<2, 1>>, 0, 1, maxlen), SampleVocabLines) :
        maxlen \in (0 - 1)..1}

\* MangaOCR(model_dir) is about to run on one of LimitDirs.
InitLimit ==
    /\ artifacts \in LimitDirs
    /\ init_pc = "start"
    /\ init_error = None
    /\ ocr = None
    /\ config = None
    /\ processor = None
    /\ tokenizer = None
    /\ encoder_session = EmptyGraph
    /\ decoder_session = EmptyGraph
    /\ decoder_start_token_id = None
    /\ eos_token_id = None
    /\ max_length = None
    /\ NoFrame
    /\ NoDirect
    /\ NoBuild

\* Construction, then calls on the engine.
NextLimit ==
    \/ LoadConfig
    \/ InitProcessor
    \/ InitTokenizer
    \/ LoadEncoder
    \/ LoadDecoder
    \/ ReadParams
    \/ Next

SpecLimit == InitLimit /\ [][NextLimit]_vars

\* ------------------------------------------- BuildScript.desktop_dev

\* The variables of the OCR engine, which the build script leaves alone.
engineVars == <<instanceVars, sessionVars, frameVars, historyVars, directVars,
                constructVars, threadVars>>

\* is_windows() and the rest.
Platforms == {"windows", "unix"}

\* What SIGTERM does to the script: the default action terminates it; a
\* disposition inherited as ignored lets it run on.
Dispositions == {"default", "ignored"}

\* The process of Popen(["yarn", "dev"]): whether Popen has started it,
\* whether it runs, and whether the Popen object has collected its exit
\* status.
NotSpawned == [started |-> FALSE, running |-> FALSE, reaped |-> FALSE]

Spawned == [started |-> TRUE, running |-> TRUE, reaped |-> FALSE]

\* desktop_dev has returned, an exception has left it, or the script was
\* terminated inside it.
DevEnded == dev_pc \in {"returned", "raised", "killed"}

\* `return value` and `raise exc` out of desktop_dev.
DevReturn(value) ==
    /\ dev_pc' = "returned"
    /\ dev_ret' = [kind |-> "return", value |-> value]

DevRaise(exc) ==
    /\ dev_pc' = "raised"
    /\ dev_ret' = [kind |-> "raise", exc |-> exc]

\* Lines 492-496: a dependency step that returns False ends the call
\* before anything is spawned.
CheckDependencies ==
    /\ dev_pc = "start"
    /\ \E frontend_install_deps \in BOOLEAN, install_tauri_cli \in BOOLEAN :
          IF frontend_install_deps /\ install_tauri_cli
          THEN dev_pc' = "sdk" /\ dev_ret' = dev_ret
          ELSE DevReturn(FALSE)
    /\ UNCHANGED <<platform, sigterm, frontend_process, cleanups, caller, pending,
                   engineVars>>

\* Lines 499-502: the result of the SDK build only decides on a warning.
BuildSdk ==
    /\ dev_pc = "sdk"
    /\ \E build_plugin_sdk_native \in BOOLEAN : dev_pc' = "spawn"
    /\ UNCHANGED <<platform, sigterm, frontend_process, cleanups, caller,
                   pending, dev_ret,
                   engineVars>>

\* Lines 507-513: Popen starts the process, or raises OSError and nothing
\* was started.
SpawnFrontend ==
    /\ dev_pc = "spawn"
    /\ \/ /\ frontend_process' = Spawned
          /\ dev_pc' = "sleep"
          /\ dev_ret' = dev_ret
       \/ /\ DevRaise("OSError")
          /\ frontend_process' = frontend_process
    /\ UNCHANGED <<platform, sigterm, cleanups, caller, pending,
                   engineVars>>

\* The frontend process ends by itself while the script runs.
FrontendExits ==
    /\ ~DevEnded
    /\ frontend_process.running
    /\ frontend_process' = [frontend_process EXCEPT !.running = FALSE]
    /\ UNCHANGED <<platform, sigterm, dev_pc, cleanups, caller, pending, dev_ret,
                   engineVars>>

\* Line 547: time.sleep(3) returns, or KeyboardInterrupt is raised in it.
Sleep ==
    /\ dev_pc = "sleep"
    /\ dev_pc' \in {"tauri", "except"}
    /\ UNCHANGED <<platform, sigterm, frontend_process, cleanups, caller,
                   pending, dev_ret,
                   engineVars>>

\* Lines 552-553: run_command returns True or False, which the function is
\* to return after the finally clause; or subprocess.run raises OSError,
\* which is to propagate after it; or KeyboardInterrupt is raised.
RunTauri ==
    /\ dev_pc = "tauri"
    /\ \/ \E result \in BOOLEAN :
             /\ pending' = [kind |-> "return", value |-> result]
             /\ dev_pc' = "finally"
       \/ /\ pending' = [kind |-> "raise", exc |-> "OSError"]
          /\ dev_pc' = "finally"
       \/ /\ pending' = pending
          /\ dev_pc' = "except"
    /\ UNCHANGED <<platform, sigterm, frontend_process, cleanups, caller, dev_ret,
                   engineVars>>

\* cleanup_frontend() is called: lines 556 and 561.
InvokeCleanup(from) ==
    /\ cleanups' = cleanups + 1
    /\ caller' = from
    /\ dev_pc' = "cleanup"

\* Lines 554-556: the KeyboardInterrupt handler calls cleanup_frontend.
ExceptKeyboardInterrupt ==
    /\ dev_pc = "except"
    /\ InvokeCleanup("except")
    /\ UNCHANGED <<platform, sigterm, frontend_process, pending, dev_ret,
                   engineVars>>

\* Lines 558-561: the finally clause calls cleanup_frontend.
Finally ==
    /\ dev_pc = "finally"
    /\ InvokeCleanup("finally")
    /\ UNCHANGED <<platform, sigterm, frontend_process, pending, dev_ret,
                   engineVars>>

\* KeyboardInterrupt leaves cleanup_frontend, whose first try statement
\* catches Exception only: out of the handler it is what propagates after
\* the finally clause, out of the finally clause it leaves desktop_dev.
CleanupInterrupted ==
    IF caller = "except"
    THEN /\ pending' = [kind |-> "raise", exc |-> "KeyboardInterrupt"]
         /\ dev_pc' = "finally"
         /\ dev_ret' = dev_ret
    ELSE /\ DevRaise("KeyboardInterrupt")
         /\ pending' = pending

\* Lines 518-524 on Windows: subprocess.run of taskkill. Exit status 0: the
\* process tree is terminated. Any other exit status: run returns all the
\* same (no check=True, returncode not read) and the process is as it was.
\* OSError: the except clause of line 530 takes over. KeyboardInterrupt
\* leaves cleanup_frontend.
Taskkill ==
    /\ dev_pc = "cleanup"
    /\ platform = "windows"
    /\ \/ /\ frontend_process' = [frontend_process EXCEPT !.running = FALSE]
          /\ dev_pc' = "cleanup_done"
          /\ UNCHANGED <<pending, dev_ret>>
       \/ /\ frontend_process' = frontend_process
          /\ dev_pc' = "cleanup_done"
          /\ UNCHANGED <<pending, dev_ret>>
       \/ /\ frontend_process' = frontend_process
          /\ dev_pc' = "fallback"
          /\ UNCHANGED <<pending, dev_ret>>
       \/ /\ frontend_process' = frontend_process
          /\ CleanupInterrupted
    /\ UNCHANGED <<platform, sigterm, cleanups, caller,
                   engineVars>>

\* Line 528 elsewhere: Popen was called without a new session or process
\* group, so the process group of frontend_process is the script's own and
\* killpg signals both. The frontend process ends or handles the signal
\* and runs on; the script is terminated unless SIGTERM is ignored. Once
\* the exit status is collected, getpgid raises ProcessLookupError.
Killpg ==
    /\ dev_pc = "cleanup"
    /\ platform = "unix"
    /\ IF frontend_process.reaped
       THEN /\ dev_pc' = "fallback"
            /\ frontend_process' = frontend_process
       ELSE /\ \E survives \in BOOLEAN :
                  frontend_process' =
                      [frontend_process EXCEPT !.running = @ /\ survives]
            /\ dev_pc' = IF sigterm = "default" THEN "killed" ELSE "wait"
    /\ UNCHANGED <<platform, sigterm, cleanups, caller, pending, dev_ret,
                   engineVars>>

\* Line 529: wait(timeout=3) collects the exit status of a process that
\* has ended or ends in time, raises TimeoutExpired otherwise, or is left
\* by KeyboardInterrupt.
Wait ==
    /\ dev_pc = "wait"
    /\ \/ /\ frontend_process' =
                 [frontend_process EXCEPT !.running = FALSE, !.reaped = TRUE]
          /\ dev_pc' = "cleanup_done"
          /\ UNCHANGED <<pending, dev_ret>>
       \/ /\ frontend_process.running
          /\ frontend_process' = frontend_process
          /\ dev_pc' = "fallback"
          /\ UNCHANGED <<pending, dev_ret>>
       \/ /\ frontend_process' = frontend_process
          /\ CleanupInterrupted
    /\ UNCHANGED <<platform, sigterm, cleanups, caller,
                   engineVars>>

\* Lines 530-543: the last resort. On Windows taskkill once more, with the
\* same outcomes; elsewhere Popen.kill, which does nothing once the exit
\* status is collected. `except: pass` swallows whatever is raised.
Fallback ==
    /\ dev_pc = "fallback"
    /\ IF platform = "windows"
       THEN \E terminated \in BOOLEAN :
               frontend_process' =
                   [frontend_process EXCEPT !.running = @ /\ ~terminated]
       ELSE frontend_process' = [frontend_process EXCEPT !.running = FALSE]
    /\ dev_pc' = "cleanup_done"
    /\ UNCHANGED <<platform, sigterm, cleanups, caller, pending, dev_ret,
                   engineVars>>

\* cleanup_frontend returns: the handler goes on to `return False` (line
\* 557), which the finally clause precedes; the finally clause logs
\* "Frontend server stopped." (line 562) and the pending return or raise
\* takes place.
CleanupReturns ==
    /\ dev_pc = "cleanup_done"
    /\ IF caller = "except"
       THEN /\ pending' = [kind |-> "return", value |-> FALSE]
            /\ dev_pc' = "finally"
            /\ dev_ret' = dev_ret
       ELSE /\ pending' = pending
            /\ IF pending.kind = "return"
               THEN DevReturn(pending.value)
               ELSE DevRaise(pending.exc)
    /\ UNCHANGED <<platform, sigterm, frontend_process, cleanups, caller,
                   engineVars>>

\* build.py desktop-dev is about to run desktop_dev, on either platform.
InitDev ==
    /\ Constructed(SampleConfig(<<2, 1>>, 0, 1, 1), SampleVocabLines)
    /\ NoFrame
    /\ NoDirect
    /\ platform \in Platforms
    /\ sigterm \in Dispositions
    /\ dev_pc = "start"
    /\ frontend_process = NotSpawned
    /\ cleanups = 0
    /\ caller = None
    /\ pending = None
    /\ dev_ret = None

NextDev ==
    \/ CheckDependencies
    \/ BuildSdk
    \/ SpawnFrontend
    \/ FrontendExits
    \/ Sleep
    \/ RunTauri
    \/ ExceptKeyboardInterrupt
    \/ Finally
    \/ Taskkill
    \/ Killpg
    \/ Wait
    \/ Fallback
    \/ CleanupReturns

SpecDev == InitDev /\ [][NextDev]_vars

\* ------------------------------------------------- calls of the components

\* All sequences over S of length at most n.
SeqsUpTo(S, n) == UNION {[1..k -> S] : k \in 0..n}

\* Characters of the texts handed to post_process.
PostAlphabet == {" ", "a", ".", "MIDDLE_DOT", "ELLIPSIS"}

\* Lines a vocab.txt is drawn from: "[P]", "##[P]", "a", "#", " [S] ".
LinePool ==
    { <<"[", "P", "]", "NL">>,
      <<"#", "#", "[", "P", "]", "NL">>,
      <<"a", "NL">>,
      <<"#", "NL">>,
      <<" ", "[", "S", "]", " ", "NL">> }

\* PIL modes of the images handed to process.
Modes == {"1", "L", "P", "RGB", "RGBA", "CMYK"}

\* mangaocr.post_process(text)
CallPostProcess(t) ==
    /\ op = None
    /\ op' = "post_process"
    /\ arg' = t
    /\ locals' = PostTexts(t)
    /\ ret' = post_process(t)
    /\ UNCHANGED <<instanceVars, sessionVars, frameVars, historyVars,
                   constructVars, threadVars, buildVars>>

\* tokenizer.decode(token_ids, skip_special_tokens)
CallDecode(token_ids, skip_special_tokens) ==
    /\ op = None
    /\ op' = "decode"
    /\ arg' = [token_ids |-> token_ids, skip_special_tokens |-> skip_special_tokens]
    /\ locals' = DecodeLocals(tokenizer, token_ids, skip_special_tokens)
    /\ ret' = decode(tokenizer, token_ids, skip_special_tokens)
    /\ UNCHANGED <<instanceVars, sessionVars, frameVars, historyVars,
                   constructVars, threadVars, buildVars>>

\* processor.process(image)
CallProcess(img) ==
    /\ op = None
    /\ op' = "process"
    /\ arg' = img
    /\ locals' = None
    /\ ret' = process(processor, img)
    /\ UNCHANGED <<instanceVars, sessionVars, frameVars, historyVars,
                   constructVars, threadVars, buildVars>>

\* base.py, lines 33-35, on the string x that its line 31 decoded.
RunBase(x) ==
    /\ op = None
    /\ op' = "base"
    /\ arg' = x
    /\ locals' = BaseTexts(x)
    /\ ret' = BaseTexts(x)[3]
    /\ UNCHANGED <<instanceVars, sessionVars, frameVars, historyVars,
                   constructVars, threadVars, buildVars>>

\* post_process on every text over PostAlphabet.
InitPost ==
    /\ Constructed(SampleConfig(<<2, 1>>, 0, 1, 1), SampleVocabLines)
    /\ NoFrame
    /\ NoDirect
    /\ NoBuild

NextPost ==
    op = None /\ \E t \in SeqsUpTo(PostAlphabet, MaxTextLen) : CallPostProcess(t)

SpecPost == InitPost /\ [][NextPost]_vars

\* decode under every vocabulary of VocabLines lines of LinePool.
InitDecode ==
    /\ \E lines \in [1..VocabLines -> LinePool] :
           Constructed(SampleConfig(<<2, 1>>, 0, 1, 1), lines)
    /\ NoFrame
    /\ NoDirect
    /\ NoBuild

NextDecode ==
    op = None /\ \E ids \in SeqsUpTo((0 - 1)..VocabLines, MaxIds), skip \in BOOLEAN :
                     CallDecode(ids, skip)

SpecDecode == InitDecode /\ [][NextDecode]_vars

\* process under every configured size, on every mode and size of image.
InitProcess ==
    /\ \E w \in 1..MaxDim, h \in 1..MaxDim :
           Constructed(SampleConfig(<<w, h>>, 0, 1, 1), SampleVocabLines)
    /\ NoFrame
    /\ NoDirect
    /\ NoBuild

NextProcess ==
    \E mode \in Modes, w \in 1..MaxDim, h \in 1..MaxDim :
        CallProcess([mode |-> mode, size |-> <<w, h>>,
                     pixels |-> << PixelOp("img", "", <<>>) >>])

SpecProcess == InitProcess /\ [][NextProcess]_vars

\* ------------------------------------------- calls of every kind together

\* One engine on which calls of the engine, raising or not, and calls of
\* decode, process and post_process are made.
InitFrame ==
    /\ Constructed(SampleConfig(<<2, 1>>, 0, 1, 1), SampleVocabLines)
    /\ NoFrame
    /\ NoDirect
    /\ NoBuild

NextFrame ==
    \/ NextFail
    \/ \E t \in SeqsUpTo(PostAlphabet, 1) : CallPostProcess(t)
    \/ \E ids \in SeqsUpTo(0..Len(SampleVocabLines), 1), skip \in BOOLEAN :
           CallDecode(ids, skip)
    \/ \E img \in Images : CallProcess(img)

SpecFrame == InitFrame /\ [][NextFrame]_vars

\* -------------------------------------------- calls whose ids give text

\* Third lines of a vocab.txt whose first two are "[P]" and "[S]": a
\* letter, an ellipsis, a middle-dot.
TextLines ==
    { <<"a", "NL">>, <<"ELLIPSIS", "NL">>, <<"MIDDLE_DOT", "NL">> }

\* Engines of max_length MaxLen whose start token is [P] or the token of
\* the third line, which is no special token.
InitResult ==
    /\ \E line \in TextLines, start \in {0, 2} :
           Constructed(SampleConfig(<<2, 1>>, start, 1, MaxLen),
                       << SampleVocabLines[1], SampleVocabLines[2], line >>)
    /\ NoFrame
    /\ NoDirect
    /\ NoBuild

NextResult ==
    \/ \E img \in GoodImages : Call(img)
    \/ RunEncoder
    \/ DecodeStep
    \/ LoopExhausted
    \/ Finish

SpecResult == InitResult /\ [][NextResult]_vars

\* ------------------------------------- calls on paths and loaded images

\* What a caller passes: loaded images of four modes and paths to files
\* that hold images of three modes.
Arguments ==
    {[mode |-> m, size |-> <<3, 2>>, pixels |-> << PixelOp("img", "", <<>>) >>] :
        m \in {"RGB", "L", "RGBA", "P"}}
    \cup {[mode |-> "str", size |-> <<>>, pixels |-> << PixelOp("file", m, <<1, 3>>) >>] :
              m \in {"RGB", "L", "CMYK"}}

\* One call on an engine of max_length MaxLen.
InitRoundTrip ==
    /\ Constructed(SampleConfig(<<2, 1>>, 0, 1, MaxLen), SampleVocabLines)
    /\ NoFrame
    /\ NoDirect
    /\ NoBuild

NextRoundTrip ==
    \/ \E x \in Arguments : pc = "idle" /\ Call(x)
    \/ RunEncoder
    \/ DecodeStep
    \/ LoopExhausted
    \/ Finish

SpecRoundTrip == InitRoundTrip /\ [][NextRoundTrip]_vars

\* ----------------------------------------- the engine and the reference

\* Every text over PostAlphabet is given to post_process or to the lines of
\* base.py.
InitBase ==
    /\ Constructed(SampleConfig(<<2, 1>>, 0, 1, 1), SampleVocabLines)
    /\ NoFrame
    /\ NoDirect
    /\ NoBuild

NextBase ==
    \/ op = None /\ \E t \in SeqsUpTo(PostAlphabet, MaxTextLen) : CallPostProcess(t)
    \/ op = None /\ \E t \in SeqsUpTo(PostAlphabet, MaxTextLen) : RunBase(t)

SpecBase == InitBase /\ [][NextBase]_vars

\* --------------------------------- decode under other special-token ids

\* Lines of the vocabularies: "[P]", "a", " [S] ".
IdLinePool ==
    { <<"[", "P", "]", "NL">>, <<"a", "NL">>, <<" ", "[", "S", "]", " ", "NL">> }

\* A config.json whose special tokens have the strings of
\* SampleSpecialTokens and the ids `ids`.
ConfigWithIds(ids) ==
    [SampleConfig(<<2, 1>>, 0, 1, 1) EXCEPT
        !.special_tokens = [n \in SpecialNames |->
                               [id    |-> ids[n],
                                token |-> SampleSpecialTokens[n].token]]]

\* The ids config.json gives the special tokens: any id for pad, unk and
\* mask, and any id for cls and sep, in the vocabulary or not.
SpecialIdChoices ==
    {[n \in SpecialNames |-> IF n \in {"cls", "sep"} THEN a ELSE b] :
        a \in 0..VocabLines, b \in 0..VocabLines}

\* decode under every such configuration and every vocabulary of
\* VocabLines lines of IdLinePool.
InitIds ==
    /\ \E lines \in [1..VocabLines -> IdLinePool], ids \in SpecialIdChoices :
           Constructed(ConfigWithIds(ids), lines)
    /\ NoFrame
    /\ NoDirect
    /\ NoBuild

NextIds ==
    op = None /\ \E ids \in SeqsUpTo(0..VocabLines, MaxIds), skip \in BOOLEAN :
                     CallDecode(ids, skip)

SpecIds == InitIds /\ [][NextIds]_vars

\* ------------------------------------------------------------------ claims

\* The decoder runs of the current call, in order.
DecoderRuns == SelectSeq(runs, LAMBDA r : r.session = "decoder")

\* The encoder runs of the current call.
EncoderRuns == SelectSeq(runs, LAMBDA r : r.session = "encoder")

\* The ids a decode loop chose: the generated sequence without its first
\* element.
Chosen(ids) == SubSeq(ids, 2, Len(ids))

\* No id of sequence ids equals e.
Without(ids, e) == \A i \in 1..Len(ids) : ids[i] # e

\* A text: a sequence of characters.
IsText(t) == t # None /\ DOMAIN t = 1..Len(t) /\ \A i \in 1..Len(t) : t[i] \in STRING

\* C1: for a positive max_length, whatever ids the decoder's argmax gives, a
\* call makes at most max_length decoder runs: after max_length runs the loop
\* cannot run the decoder again and ends; and the ids handed to the tokenizer
\* (the generated ids without the start token) are at most max_length.
C1_LoopBounded ==
    max_length > 0 =>
        /\ Len(DecoderRuns) <= max_length
        /\ (pc = "loop" /\ Len(DecoderRuns) = max_length) =>
               (~ENABLED DecodeStep /\ ENABLED LoopExhausted)
        /\ pc \in {"after_loop", "returned"} =>
               Len(Chosen(generated_ids)) <= max_length
        /\ \A k \in 1..Len(returned) :
               Len(Chosen(returned[k].ids)) <= max_length

\* A call returned after max_length >= 2 decoder runs.
C1_Witness ==
    /\ pc = "returned"
    /\ max_length >= 2
    /\ Len(DecoderRuns) = max_length
    /\ Len(Chosen(generated_ids)) = max_length

\* C2 as stated: when no chosen id is eos_token_id, the loop makes exactly
\* max_length decoder runs and the call ends by exhausting the range
\* (LengthLimitReached), returning a non-empty string.
C2_Original ==
    (pc = "returned" /\ max_length > 0 /\ Without(Chosen(generated_ids), eos_token_id)) =>
        /\ Len(DecoderRuns) = max_length
        /\ loop_exit = "exhausted"
        /\ IsText(text)
        /\ text # <<>>

\* C2 amended: when no chosen id is eos_token_id, the loop makes exactly
\* max_length decoder runs and the call ends by exhausting the range
\* (LengthLimitReached), returning a string, which may be empty, and no error.
C2_LengthLimit ==
    (pc = "returned" /\ max_length > 0 /\ Without(Chosen(generated_ids), eos_token_id)) =>
        /\ Len(DecoderRuns) = max_length
        /\ Len(Chosen(generated_ids)) = max_length
        /\ loop_exit = "exhausted"
        /\ IsText(text)

\* A call without eos returned the empty string after max_length runs.
C2_Witness ==
    /\ pc = "returned"
    /\ max_length >= 2
    /\ Without(Chosen(generated_ids), eos_token_id)
    /\ loop_exit = "exhausted"
    /\ text = <<>>

\* C3: once the chosen id is eos_token_id the loop is left with the id
\* appended and the decoder is not run again in the call: eos_token_id is
\* found among the chosen ids only as the last one, and no decoder run of the
\* call had eos_token_id among the chosen ids of its input.
C3_EosStops ==
    /\ \A i \in 2..Len(generated_ids) :
           generated_ids[i] = eos_token_id => i = Len(generated_ids)
    /\ (Len(generated_ids) >= 2 /\ generated_ids[Len(generated_ids)] = eos_token_id) =>
           /\ pc \in {"after_loop", "returned"}
           /\ loop_exit = "break"
           /\ Len(DecoderRuns) = Len(generated_ids) - 1
    /\ \A k \in 1..Len(DecoderRuns) :
           Without(Chosen(DecoderRuns[k].inputs.input_ids[1]), eos_token_id)
    /\ \A k \in 1..Len(returned) :
           \A i \in 2..Len(returned[k].ids) :
               returned[k].ids[i] = eos_token_id => i = Len(returned[k].ids)

\* A call whose start token is eos_token_id stopped on eos before max_length
\* runs.
C3_Witness ==
    /\ pc = "returned"
    /\ loop_exit = "break"
    /\ decoder_start_token_id = eos_token_id
    /\ Len(DecoderRuns) < max_length
    /\ generated_ids[Len(generated_ids)] = eos_token_id

\* C4: a call runs the encoder exactly once, before any decoder run, and
\* every decoder run of the call is given that run's output as
\* encoder_hidden_states.
C4_EncoderOnce ==
    /\ pc \in {"idle", "run_encoder"} => runs = <<>>
    /\ pc \in {"loop", "after_loop", "returned"} =>
           /\ Len(EncoderRuns) = 1
           /\ runs[1].session = "encoder"
           /\ runs[1].inputs.pixel_values = pixel_values
           /\ \A k \in 1..Len(DecoderRuns) :
                  DecoderRuns[k].inputs.encoder_hidden_states = runs[1].output

\* A call returned after two decoder runs on the output "h2" of its encoder
\* run.
C4_Witness ==
    /\ pc = "returned"
    /\ Len(DecoderRuns) >= 2
    /\ runs[1].output = "h2"

\* C5: the sessions being functions of their inputs, any two calls on the
\* same image generate the same ids and return the same string, whatever
\* calls were made between them.
C5_Deterministic ==
    \A i, j \in 1..Len(returned) :
        returned[i].image = returned[j].image =>
            /\ returned[i].ids = returned[j].ids
            /\ returned[i].result = returned[j].result

\* Two calls on one image returned a non-empty string, with a call on
\* another image between them.
C5_Witness ==
    /\ Len(returned) = 3
    /\ returned[1].image = returned[3].image
    /\ returned[2].image # returned[1].image
    /\ returned[2].ids # returned[1].ids
    /\ returned[1].result # <<>>

\* The special-token strings config.json gives.
ConfiguredSpecials == {config.special_tokens[n].token : n \in SpecialNames}

\* Number of lines of the vocabulary.
VocabSize == Cardinality(DOMAIN tokenizer.id_to_token)

\* The first k of the kept tokens, joined and with the markers removed.
Upto(tokens, k) == RemoveMarkers(Concat(SubSeq(tokens, 1, k)))

\* s is found in the returned string out between the ends of two
\* successive kept tokens.
AlignedIn(out, tokens, s) ==
    \E k \in 1..Len(tokens) :
        LET a == Upto(tokens, k - 1)
            b == Upto(tokens, k)
        IN  /\ Len(a) <= Len(b) /\ Len(b) <= Len(out)
            /\ SubSeq(out, 1, Len(a)) = a
            /\ SubSeq(out, 1, Len(b)) = b
            /\ SubSeq(out, Len(a) + 1, Len(b)) = s

\* The ids of token_ids that are in the vocabulary and whose token is not a
\* configured special-token string.
OrdinaryIds(token_ids) ==
    SelectSeq(token_ids,
              LAMBDA id : /\ id \in 0..(VocabSize - 1)
                          /\ tokenizer.id_to_token[id] \notin ConfiguredSpecials)

\* C6 as stated: the string decode returns with skip_special_tokens=True,
\* after the '##' removal, holds no configured special-token string between
\* two token boundaries.
C6_Original ==
    (op = "decode" /\ arg.skip_special_tokens) =>
        \A s \in ConfiguredSpecials : ~AlignedIn(ret, locals.tokens, s)

\* C6 amended: with skip_special_tokens=True decode keeps no token equal to a
\* configured special-token string: the text joined before the '##' removal
\* is the concatenation, in order, of the tokens of the in-range ids that
\* are not special-token strings.
C6_NoSpecialTokenKept ==
    (op = "decode" /\ arg.skip_special_tokens) =>
        /\ \A i \in 1..Len(locals.tokens) : locals.tokens[i] \notin ConfiguredSpecials
        /\ LET ids == OrdinaryIds(arg.token_ids)
           IN  /\ locals.tokens = [i \in 1..Len(ids) |-> tokenizer.id_to_token[ids[i]]]
               /\ locals.joined = Concat(locals.tokens)

\* decode skipped a special token and kept another token.
C6_Witness ==
    /\ op = "decode"
    /\ arg.skip_special_tokens
    /\ \E i \in 1..Len(arg.token_ids) :
           /\ arg.token_ids[i] \in DOMAIN tokenizer.id_to_token
           /\ tokenizer.id_to_token[arg.token_ids[i]] \in ConfiguredSpecials
    /\ locals.tokens # <<>>
    /\ ret # <<>>

\* The ids of token_ids that are in 0..N-1.
InRangeIds(token_ids) ==
    SelectSeq(token_ids, LAMBDA id : id \in 0..(VocabSize - 1))

\* C7: decode returns a string also when ids are negative or >= N; it keeps
\* no token for such an id, and the result is the one decode gives for the
\* sequence without these ids.
C7_OutOfRangeSkipped ==
    op = "decode" =>
        /\ IsText(ret)
        /\ Len(locals.tokens) <= Len(InRangeIds(arg.token_ids))
        /\ ret = decode(tokenizer, InRangeIds(arg.token_ids), arg.skip_special_tokens)

\* decode was given a negative id, then an id >= N, then an id of a token
\* it kept.
C7_Witness ==
    /\ op = "decode"
    /\ Len(arg.token_ids) = 3
    /\ arg.token_ids[1] < 0
    /\ arg.token_ids[2] >= VocabSize
    /\ arg.token_ids[3] \in 0..(VocabSize - 1)
    /\ ret # <<>>

\* Step 1 of normalize: the characters that are not whitespace.
NoWhitespace(t) == SelectSeq(t, LAMBDA c : c \notin Whitespace)

RECURSIVE EllipsisAsPeriods(_)
\* Step 2 of normalize: every ellipsis character becomes three periods.
EllipsisAsPeriods(t) ==
    IF t = <<>> THEN <<>>
    ELSE (IF Head(t) = "ELLIPSIS" THEN <<".", ".", ".">> ELSE <<Head(t)>>)
             \o EllipsisAsPeriods(Tail(t))

\* Step 3 of normalize: a middle-dot or period next to another one becomes
\* a period.
RunsAsPeriods(t) ==
    [i \in 1..Len(t) |->
        IF /\ t[i] \in DotClass
           /\ \/ (i > 1 /\ t[i - 1] \in DotClass)
              \/ (i < Len(t) /\ t[i + 1] \in DotClass)
        THEN "." ELSE t[i]]

\* C8: post_process returns, for every text, the composition in this order
\* of whitespace removal, ellipsis replacement and the rewriting of runs of
\* two or more of {middle-dot, period} to periods; and the four examples.
C8_NormalizeComposition ==
    /\ op = "post_process" =>
           /\ IsText(ret)
           /\ ret = RunsAsPeriods(EllipsisAsPeriods(NoWhitespace(arg)))
    /\ post_process(<<"ELLIPSIS">>) = <<".", ".", ".">>
    /\ post_process(<<" ", "a", " ", "b", " ">>) = <<"a", "b">>
    /\ post_process(<<"MIDDLE_DOT", "MIDDLE_DOT", "MIDDLE_DOT">>) = <<".", ".", ".">>
    /\ post_process(<<"a", ".", ".", "b">>) = <<"a", ".", ".", "b">>

\* post_process on a middle-dot, a space and an ellipsis gave four periods.
C8_Witness ==
    /\ op = "post_process"
    /\ arg = <<"MIDDLE_DOT", " ", "ELLIPSIS">>
    /\ ret = <<".", ".", ".", ".">>

\* Positions i..j of t are a maximal run of characters of {middle-dot,
\* period}.
MaximalRun(t, i, j) ==
    /\ i <= j
    /\ \A k \in i..j : t[k] \in DotClass
    /\ (i > 1 => t[i - 1] \notin DotClass)
    /\ (j < Len(t) => t[j + 1] \notin DotClass)

\* C9: step 3 of post_process turns every maximal run of n >= 2 characters
\* of {middle-dot, period} into n periods, leaves a single one and every
\* other character as they are, and so keeps the length.
C9_RunLengthKept ==
    op = "post_process" =>
        LET before == locals[2]
            after  == locals[3]
        IN  /\ Len(after) = Len(before)
            /\ \A i, j \in 1..Len(before) :
                   MaximalRun(before, i, j) =>
                       IF j - i + 1 >= 2
                       THEN \A k \in i..j : after[k] = "."
                       ELSE after[i] = before[i]
            /\ \A k \in 1..Len(before) :
                   before[k] \notin DotClass => after[k] = before[k]

\* Step 3 was given a single middle-dot and a run of four.
C9_Witness ==
    /\ op = "post_process"
    /\ locals[2] = <<"MIDDLE_DOT", "a", "MIDDLE_DOT", ".", ".", ".">>
    /\ locals[3] = <<"MIDDLE_DOT", "a", ".", ".", ".", ".">>

\* C10: process returns, for every mode and size of the image, a tensor of
\* shape [1, 3, H, W] where image_size of the configuration is (W, H).
C10_ProcessShape ==
    op = "process" =>
        ret.shape = <<1, 3, config.preprocessor.image_size[2],
                      config.preprocessor.image_size[1]>>

\* process resized a single-band 3x1 image to the configured 1x2.
C10_Witness ==
    /\ op = "process"
    /\ arg.mode = "L"
    /\ arg.size = <<3, 1>>
    /\ config.preprocessor.image_size = <<1, 2>>
    /\ ret.shape = <<1, 3, 2, 1>>

\* ------------------------------------------------------------ construction

\* The class of the error taxonomy an exception of the code falls under.
ErrorKind(exc) ==
    CASE exc \in {"FileNotFoundError", "onnxruntime.NoSuchFile"} -> "ArtifactMissing"
      [] exc \in {"json.JSONDecodeError", "KeyError",
                  "onnxruntime.InvalidProtobuf"}                 -> "ArtifactInvalid"
      [] exc \in {"PIL.UnidentifiedImageError", "OSError"}       -> "InvalidImage"
      [] exc = "onnxruntime.RuntimeException"                    -> "InferenceFailure"
      [] OTHER                                                   -> None

\* Every step of the construction can succeed on the model directory.
AllStepsOk(dir) ==
    /\ dir.config.status = "ok"
    /\ ConfigKeys \subseteq DOMAIN dir.config.value
    /\ dir.vocab.status = "ok"
    /\ dir.encoder = "ok"
    /\ dir.decoder = "ok"

C12_AllOrNothing ==
    /\ ocr # None =>
          /\ init_pc = "done"
          /\ init_error = None
          /\ AllStepsOk(artifacts)
          /\ config = artifacts.config.value
          /\ processor = NewImageProcessor(config)
          /\ tokenizer = NewTokenizer(artifacts.vocab.lines, config)
          /\ decoder_start_token_id = config.model.decoder_start_token_id
          /\ eos_token_id = config.model.eos_token_id
          /\ max_length = config.model.max_length
    /\ ~AllStepsOk(artifacts) => (ocr = None /\ calls = 0 /\ init_pc # "done")
    /\ init_pc = "raised" => (ocr = None /\ calls = 0 /\ init_error # None)
    /\ init_pc = "done" => ocr # None

\* The last step raised on a config.json without the model key: both
\* sessions were loaded, and the caller holds nothing.
C12_Witness ==
    /\ init_pc = "raised"
    /\ init_error = "KeyError"
    /\ artifacts.vocab.status = "ok"
    /\ artifacts.encoder = "ok"
    /\ artifacts.decoder = "ok"
    /\ DOMAIN artifacts.config.value = {"preprocessor", "special_tokens"}
    /\ ocr = None

\* ------------------------------------------------------ calls that raise

\* The ids the loop generates from ids under the graphs of the sessions, with
\* n iterations left; <<>> where the graphs have not been shown.
RECURSIVE AloneLoop(_, _, _)
AloneLoop(h, ids, n) ==
    IF n <= 0 THEN ids
    ELSE IF <<h, ids>> \notin DOMAIN decoder_session THEN <<>>
    ELSE LET next_token_id == Argmax(decoder_session[<<h, ids>>])
         IN  IF next_token_id = eos_token_id
             THEN Append(ids, next_token_id)
             ELSE AloneLoop(h, Append(ids, next_token_id), n - 1)

\* The ids a call on img generates on an engine that made no other call: the
\* graphs are those of the files, whatever the engine did before.
AloneIds(img) ==
    LET px == process(processor, Convert(Convert(img, "L"), "RGB"))
    IN  IF px \notin DOMAIN encoder_session THEN <<>>
        ELSE AloneLoop(encoder_session[px], <<decoder_start_token_id>>, max_length)

\* The returned call r gave what a call alone on a fresh engine gives.
ReturnsAsAlone(r) ==
    /\ r.ids = AloneIds(r.image)
    /\ r.result = post_process(decode(tokenizer, Chosen(r.ids), TRUE))

\* The attributes of the engine are those the construction set.
AsConstructed ==
    /\ config = artifacts.config.value
    /\ processor = NewImageProcessor(config)
    /\ tokenizer = NewTokenizer(artifacts.vocab.lines, config)
    /\ decoder_start_token_id = config.model.decoder_start_token_id
    /\ eos_token_id = config.model.eos_token_id
    /\ max_length = config.model.max_length

\* C13: a call that raised (undecodable image, encoder or decoder failure)
\* leaves the engine as constructed and callable, and every call that
\* returns, before or after a failed one, returns what a call alone on a
\* fresh engine returns for its image.
C13_FailureAbortsOnlyCall ==
    /\ AsConstructed
    /\ ocr # None
    /\ pc = "raised" =>
          /\ error # None
          /\ text = None
          /\ calls < MaxCalls => \A img \in Images : ENABLED Call(img)
    /\ \A k \in 1..Len(returned) : ReturnsAsAlone(returned[k])

\* The first call raised on a file that is no image, the second in its
\* second decoder run, and the third returned a non-empty string.
C13_Witness ==
    /\ calls = 3
    /\ pc = "returned"
    /\ Len(failures) = 2
    /\ ErrorKind(failures[1].error) = "InvalidImage"
    /\ ErrorKind(failures[2].error) = "InferenceFailure"
    /\ failures[2].runs = 3
    /\ Len(returned) = 1
    /\ returned[1].result # <<>>
    /\ Len(returned[1].ids) = 3

\* max_length where it is positive, else 0: the length of range(max_length).
RangeLen == IF max_length > 0 THEN max_length ELSE 0

\* C14: a failing encoder or decoder run is the last run of its call: the
\* call ends with InferenceFailure and without a string, no session is run
\* after it, and the runs of a call, failed ones included, are at most one
\* encoder run and max_length decoder runs.
C14_NoRetry ==
    /\ Len(EncoderRuns) <= 1
    /\ Len(DecoderRuns) <= RangeLen
    /\ \A k \in 1..Len(runs) :
          ~runs[k].ok =>
              /\ k = Len(runs)
              /\ pc = "raised"
              /\ ErrorKind(error) = "InferenceFailure"
              /\ text = None
              /\ Len(returned) < calls
    /\ (pc = "raised" /\ runs # <<>>) => ~runs[Len(runs)].ok
    /\ pc = "raised" =>
          /\ ~ENABLED RunEncoder /\ ~ENABLED EncoderFails
          /\ ~ENABLED DecodeStep /\ ~ENABLED DecoderFails
          /\ ~ENABLED Finish

\* The decoder run of the last of max_length = 2 iterations failed.
C14_Witness ==
    /\ pc = "raised"
    /\ max_length = 2
    /\ Len(DecoderRuns) = 2
    /\ DecoderRuns[1].ok
    /\ ~DecoderRuns[2].ok
    /\ error = "onnxruntime.RuntimeException"

\* C15: a call on a file that PIL cannot decode ends with InvalidImage
\* before any session run: it made no run, has no pixel values and no text.
C15_InvalidImageFirst ==
    (pc # "idle" /\ image_path \in BadImages) =>
        /\ pc = "raised"
        /\ ErrorKind(error) = "InvalidImage"
        /\ runs = <<>>
        /\ pixel_values = None
        /\ encoder_outputs = None
        /\ text = None

\* A call on the truncated file raised after an earlier call had returned.
C15_Witness ==
    /\ pc = "raised"
    /\ image_path \in BadImages
    /\ error = "OSError"
    /\ runs = <<>>
    /\ Len(returned) = 1

\* ------------------------------------------------------- generated ids

\* The decoder runs of the current call that returned logits.
CompletedIterations == SelectSeq(DecoderRuns, LAMBDA r : r.ok)

\* C19: from the encoder run on, the generated ids start with
\* decoder_start_token_id, are one more than the iterations completed, and
\* are between 1 and max_length + 1; iteration k was given the first k ids
\* and appended the argmax of its last logits row as id k + 1, and a
\* decoder run that raised appended nothing.
C19_GenerationState ==
    /\ pc \in {"idle", "run_encoder"} => generated_ids = <<>>
    /\ (pc \in {"loop", "after_loop", "returned"}
          \/ (pc = "raised" /\ EncoderRuns # <<>> /\ EncoderRuns[1].ok)) =>
          /\ generated_ids[1] = decoder_start_token_id
          /\ Len(generated_ids) = 1 + Len(CompletedIterations)
          /\ 1 <= Len(generated_ids)
          /\ Len(generated_ids) <= RangeLen + 1
          /\ \A k \in 1..Len(CompletedIterations) :
                /\ CompletedIterations[k].inputs.input_ids =
                       << SubSeq(generated_ids, 1, k) >>
                /\ generated_ids[k + 1] =
                       Argmax(CompletedIterations[k].output[1][k])
          /\ \A k \in 1..Len(DecoderRuns) :
                ~DecoderRuns[k].ok =>
                    /\ k = Len(DecoderRuns)
                    /\ DecoderRuns[k].inputs.input_ids = <<generated_ids>>
    /\ pc = "loop" => Len(generated_ids) = 1 + step

\* The second decoder run of a call raised: the ids are the start token 1
\* and the one id of the completed iteration.
C19_Witness ==
    /\ pc = "raised"
    /\ decoder_start_token_id = 1
    /\ Len(DecoderRuns) = 2
    /\ ~DecoderRuns[2].ok
    /\ Len(generated_ids) = 2
    /\ generated_ids[1] = 1
    /\ generated_ids[2] = 2

\* ------------------------------------------------------ concurrent calls

\* The frames of all threads: the running one and the parked ones.
Frames == [t \in Threads |-> IF t = thread THEN CurrentFrame ELSE parked[t]]

\* The ids of frame f are those the graphs give for the image of f alone:
\* the start token, then at each position the argmax of the row for the
\* hidden states of f's own image and the ids before it.
OwnIds(f) ==
    /\ f.pixel_values \in DOMAIN encoder_session
    /\ f.encoder_outputs = encoder_session[f.pixel_values]
    /\ f.generated_ids # <<>>
    /\ f.generated_ids[1] = decoder_start_token_id
    /\ \A k \in 2..Len(f.generated_ids) :
          LET key == <<f.encoder_outputs, SubSeq(f.generated_ids, 1, k - 1)>>
          IN  /\ key \in DOMAIN decoder_session
              /\ f.generated_ids[k] = Argmax(decoder_session[key])

\* C16: with the calls of two threads on one engine interleaved at every
\* step, the generated ids of each call are at every moment those of its own
\* image, and every call returns the ids and the string a call alone
\* returns for its image.
C16_NoInterference ==
    /\ \A t \in Threads :
          Frames[t].pc \in {"loop", "after_loop", "returned"} =>
              /\ OwnIds(Frames[t])
              /\ Frames[t].pixel_values =
                     process(processor,
                             Convert(Convert(Frames[t].image_path, "L"), "RGB"))
    /\ \A t \in Threads :
          Frames[t].pc = "returned" =>
              /\ Frames[t].generated_ids = AloneIds(Frames[t].image_path)
              /\ Frames[t].text =
                     post_process(decode(tokenizer,
                                         Chosen(Frames[t].generated_ids), TRUE))
    /\ \A k \in 1..Len(returned) :
          /\ returned[k].ids = AloneIds(returned[k].image)
          /\ \E t \in Threads :
                /\ Frames[t].pc = "returned"
                /\ Frames[t].image_path = returned[k].image
                /\ Frames[t].text = returned[k].result

\* Thread t1 returned a non-empty string for its image while the call of t2
\* on the other image, begun first, is inside its loop with other ids.
C16_Witness ==
    /\ thread = "t1"
    /\ pc = "returned"
    /\ Len(generated_ids) = 3
    /\ text # <<>>
    /\ parked["t2"].pc = "loop"
    /\ Len(parked["t2"].generated_ids) = 2
    /\ parked["t2"].generated_ids[2] # generated_ids[2]
    /\ parked["t2"].image_path # image_path
    /\ calls = 2
    /\ returned[1].image = image_path

\* ------------------------------------------------------- frame condition

\* Graph g2 is graph g with, at most, more of the same function shown.
SameFunction(g, g2) ==
    /\ DOMAIN g \subseteq DOMAIN g2
    /\ \A k \in DOMAIN g : g2[k] = g[k]

\* C17: no step of a call of the engine, returning or raising, and no call
\* of decode, process or post_process changes config, the processor, the
\* tokenizer (vocab, id_to_token, special tokens and their set),
\* decoder_start_token_id, eos_token_id, max_length or the function either
\* session computes.
C17_InstanceUnchanged ==
    [][/\ UNCHANGED <<instanceVars, constructVars>>
       /\ SameFunction(encoder_session, encoder_session')
       /\ SameFunction(decoder_session, decoder_session')]_<<instanceVars, sessionVars, constructVars>>

\* After a call that raised in a session run and a call that returned, decode
\* was called, and the engine is as constructed.
C17_Witness ==
    /\ Len(failures) >= 1
    /\ failures[1].error = "onnxruntime.RuntimeException"
    /\ Len(returned) >= 1
    /\ op = "decode"
    /\ ret # <<>>
    /\ AsConstructed
    /\ DOMAIN decoder_session # {}

\* ------------------------------------------------------------- vocabulary

\* The lines of the vocab.txt the tokenizer was loaded from.
VocabFile == artifacts.vocab.lines

\* The 0-based indices of the lines that hold token t once stripped.
LinesOf(t) == {j \in 0..(Len(VocabFile) - 1) : Strip(VocabFile[j + 1]) = t}

\* C18 as stated: id_to_token is defined exactly on 0..N-1 with id i the
\* token of line i, vocab[id_to_token[i]] = i for every id, and
\* id_to_token[vocab[t]] = t for every token of vocab.
C18_Original ==
    LET N == Len(VocabFile)
    IN  /\ DOMAIN tokenizer.id_to_token = 0..(N - 1)
        /\ \A i \in 0..(N - 1) : tokenizer.id_to_token[i] = Strip(VocabFile[i + 1])
        /\ \A i \in 0..(N - 1) : tokenizer.vocab[tokenizer.id_to_token[i]] = i
        /\ \A t \in DOMAIN tokenizer.vocab :
               tokenizer.id_to_token[tokenizer.vocab[t]] = t

\* C18: id_to_token is defined exactly on 0..N-1 with id i the stripped
\* line i; vocab is defined exactly on the tokens of id_to_token and
\* id_to_token[vocab[t]] = t; vocab[id_to_token[i]] is the greatest index
\* of a line that holds the same token, so it is i for every id exactly when
\* no two lines hold the same token.
C18_Vocabulary ==
    LET N == Len(VocabFile)
    IN  /\ DOMAIN tokenizer.id_to_token = 0..(N - 1)
        /\ \A i \in 0..(N - 1) : tokenizer.id_to_token[i] = Strip(VocabFile[i + 1])
        /\ DOMAIN tokenizer.vocab = {tokenizer.id_to_token[i] : i \in 0..(N - 1)}
        /\ \A t \in DOMAIN tokenizer.vocab :
               tokenizer.id_to_token[tokenizer.vocab[t]] = t
        /\ \A i \in 0..(N - 1) :
               LET v == tokenizer.vocab[tokenizer.id_to_token[i]]
               IN  /\ v \in LinesOf(tokenizer.id_to_token[i])
                   /\ \A j \in LinesOf(tokenizer.id_to_token[i]) : j <= v
        /\ (\A i \in 0..(N - 1) : tokenizer.vocab[tokenizer.id_to_token[i]] = i)
               <=> (\A t \in DOMAIN tokenizer.vocab : Cardinality(LinesOf(t)) = 1)

\* A vocab.txt whose two lines hold the same token "a": both ids give "a"
\* and "a" gives id 1.
C18_Witness ==
    /\ Len(VocabFile) = 2
    /\ tokenizer.id_to_token[0] = <<"a">>
    /\ tokenizer.id_to_token[1] = <<"a">>
    /\ tokenizer.vocab[<<"a">>] = 1
    /\ op = "decode"
    /\ arg.token_ids = <<0, 1>>
    /\ ret = <<"a", "a">>

\* ------------------------------------------------------- phases of a call

\* The way a loop that generated ids ended: Done when its last appended id
\* is eos_token_id, LengthLimitReached when it appended as many ids as
\* range(max_length) has and none is eos_token_id.
OutcomeOf(ids) ==
    CASE Len(ids) >= 2 /\ ids[Len(ids)] = eos_token_id              -> "Done"
      [] Len(Chosen(ids)) = RangeLen /\ Without(Chosen(ids), eos_token_id)
                                                                    -> "LengthLimitReached"
      [] OTHER                                                      -> None

\* The name of the outcome for the way the for statement was left.
ExitName(exit) ==
    CASE exit = "break"     -> "Done"
      [] exit = "exhausted" -> "LengthLimitReached"
      [] OTHER              -> None

\* The order of the phases: the entry of the image (Init), the encoder run,
\* the loop, its end, the return; a new call starts from the entry.
PhaseSteps ==
    {<<"idle", "run_encoder">>, <<"returned", "run_encoder">>,
     <<"run_encoder", "loop">>, <<"loop", "loop">>, <<"loop", "after_loop">>,
     <<"after_loop", "returned">>}

\* A step goes from one phase to the next one.
InPhaseOrder == \E ps \in PhaseSteps : ps[1] = pc /\ ps[2] = pc'

\* The loop of every call that is past it ended in one way, which is the
\* outcome its ids determine, and no exception was raised.
OutcomeDetermined ==
    /\ error = None
    /\ pc \in {"idle", "run_encoder", "loop"} => loop_exit = None
    /\ pc \in {"after_loop", "returned"} =>
          /\ ExitName(loop_exit) # None
          /\ ExitName(loop_exit) = OutcomeOf(generated_ids)
    /\ \A k \in 1..Len(returned) :
          /\ ExitName(returned[k].exit) # None
          /\ ExitName(returned[k].exit) = OutcomeOf(returned[k].ids)

\* C20 as stated: the outcome is as the ids determine it and is reported to
\* the caller: calls that return the same value to the caller ended in the
\* same outcome.
C20_Original ==
    /\ OutcomeDetermined
    /\ \A i, j \in 1..Len(returned) :
          returned[i].result = returned[j].result =>
              returned[i].exit = returned[j].exit

\* C20: every call passes through the entry of the image, the encoder run
\* and the loop in that order, and leaves the loop in exactly one of two
\* ways, never by an exception: by break (Done) exactly when the last
\* appended id is eos_token_id, by the end of the range (LengthLimitReached)
\* exactly when as many ids as the range has were appended and none is
\* eos_token_id.
C20_Phases ==
    /\ []OutcomeDetermined
    /\ [][InPhaseOrder]_vars

\* Two calls returned the empty string: the first left the loop by break at
\* once, the second went through the two iterations of the range.
C20_Witness ==
    /\ Len(returned) = 2
    /\ max_length = 2
    /\ returned[1].exit = "break"
    /\ Len(returned[1].ids) = 2
    /\ returned[2].exit = "exhausted"
    /\ Len(returned[2].ids) = 3
    /\ returned[1].result = <<>>
    /\ returned[2].result = <<>>

\* ---------------------------------------------------------- decoder inputs

\* C21: the k-th decoder run of a call (step k - 1) is given input_ids of
\* shape [1, k] holding the generated ids so far, the start token followed by
\* the ids of the earlier steps in order, and an attention_mask of the same
\* shape whose entries are all 1.
C21_DecoderInputs ==
    \A k \in 1..Len(DecoderRuns) :
        LET input_ids      == DecoderRuns[k].inputs.input_ids
            attention_mask == DecoderRuns[k].inputs.attention_mask
        IN  /\ Len(input_ids) = 1
            /\ input_ids[1] = SubSeq(generated_ids, 1, k)
            /\ input_ids[1][1] = decoder_start_token_id
            /\ \A j \in 2..k :
                   input_ids[1][j] = Argmax(DecoderRuns[j - 1].output[1][j - 1])
            /\ DOMAIN attention_mask = DOMAIN input_ids
            /\ DOMAIN attention_mask[1] = DOMAIN input_ids[1]
            /\ \A j \in 1..k : attention_mask[1][j] = 1

\* The second decoder run of a call was given the start token 1 and the id 2
\* of step 0, with the mask [[1, 1]].
C21_Witness ==
    /\ Len(DecoderRuns) = 2
    /\ DecoderRuns[2].inputs.input_ids = << <<1, 2>> >>
    /\ DecoderRuns[2].inputs.attention_mask = << <<1, 1>> >>
    /\ decoder_start_token_id = 1
    /\ pc = "returned"

\* ------------------------------------------------------------ greedy choice

\* Index i holds the maximum of row and no lower index holds it.
LowestMaximum(row, i) ==
    /\ i \in DOMAIN row
    /\ \A j \in DOMAIN row : row[j] <= row[i]
    /\ \A j \in DOMAIN row : j < i => row[j] < row[i]

\* C22: the id appended by the k-th decoder run is the lowest index of the
\* maximum of the logits at the last of the k positions of that run's
\* output, whatever the rows at the earlier positions hold.
C22_GreedyArgmax ==
    /\ \A k \in 1..Len(DecoderRuns) :
          LET logits == DecoderRuns[k].output
          IN  /\ Len(logits) = 1
              /\ Len(logits[1]) = k
              /\ LowestMaximum(logits[1][k], generated_ids[k + 1])
    /\ Len(generated_ids) = Len(DecoderRuns) + (IF EncoderRuns = <<>> THEN 0 ELSE 1)

\* The second decoder run gave a peak at id 2 at its first position and a
\* tie of ids 1 and 2 at its last: id 1 was appended.
C22_Witness ==
    /\ Len(DecoderRuns) = 2
    /\ DecoderRuns[2].output[1][1] = [j \in TokenIds |-> IF j = 2 THEN 1 ELSE 0]
    /\ DecoderRuns[2].output[1][2] = [j \in TokenIds |-> IF j = 0 THEN 0 ELSE 1]
    /\ generated_ids = <<0, 2, 1>>

\* ------------------------------------------------------ the returned string

\* The ids g without its first element, whatever ids g holds.
AfterFirst(g) == [i \in 1..(Len(g) - 1) |-> g[i + 1]]

\* The normalized text of n copies of the one-character token t.
TextOfCopies(t, n) ==
    CASE t = <<"a">>                   -> [i \in 1..n |-> "a"]
      [] t = <<"ELLIPSIS">>            -> [i \in 1..(3 * n) |-> "."]
      [] t = <<"MIDDLE_DOT">> /\ n = 1 -> <<"MIDDLE_DOT">>
      [] OTHER                         -> [i \in 1..n |-> "."]

\* C23: a call returns post_process(decode(g[1:], skip_special_tokens=True))
\* for its final ids g: only the first element is dropped, so with id 2 the
\* one token that is neither special nor out of the vocabulary, the string
\* is the normalized text of one copy of that token for every position
\* after the first that holds id 2, also when id 2 is the start token.
C23_ResultOfIds ==
    \A k \in 1..Len(returned) :
        LET g    == returned[k].ids
            rest == AfterFirst(g)
            n    == Cardinality({i \in 2..Len(g) : g[i] = 2})
        IN  /\ g[1] = decoder_start_token_id
            /\ returned[k].result = post_process(decode(tokenizer, rest, TRUE))
            /\ returned[k].result = TextOfCopies(tokenizer.id_to_token[2], n)

\* The start token is id 2, the ellipsis; the loop appended it once more and
\* then eos: the call returned the three periods of the one later ellipsis.
C23_Witness ==
    /\ pc = "returned"
    /\ decoder_start_token_id = 2
    /\ tokenizer.id_to_token[2] = <<"ELLIPSIS">>
    /\ generated_ids = <<2, 2, 1>>
    /\ text = <<".", ".", ".">>

\* ------------------------------------------------------------ the marker

\* The characters of s that are not '#', in order.
NotHash(s) == SelectSeq(s, LAMBDA c : c # "#")

\* The maximal runs of '#' in s, as pairs of first and last position.
HashRuns(s) ==
    {<<i, j>> \in (1..Len(s)) \X (1..Len(s)) :
        /\ i <= j
        /\ \A k \in i..j : s[k] = "#"
        /\ (i = 1 \/ s[i - 1] # "#")
        /\ (j = Len(s) \/ s[j + 1] # "#")}

\* C24: decode joins the kept tokens in the order of the ids with nothing
\* between them and removes '##' from the joined text, also where two tokens
\* form it: the string returned holds no '##', every character that is not
\* '#' is kept in order, and it is shorter by an even number of characters.
C24_NoMarkerLeft ==
    op = "decode" =>
        /\ Len(locals.joined) =
               Len(Concat([i \in 1..Len(locals.tokens) |-> locals.tokens[i]]))
        /\ \A i \in 1..Len(locals.tokens) :
               LET before == Len(Concat(SubSeq(locals.tokens, 1, i - 1)))
               IN  SubSeq(locals.joined, before + 1, before + Len(locals.tokens[i]))
                       = locals.tokens[i]
        /\ \A i \in 1..(Len(ret) - 1) : ~(ret[i] = "#" /\ ret[i + 1] = "#")
        /\ NotHash(ret) = NotHash(locals.joined)
        /\ Cardinality(HashRuns(ret)) =
               Cardinality({r \in HashRuns(locals.joined) : (r[2] - r[1] + 1) % 2 = 1})
        /\ (Len(locals.joined) - Len(ret)) % 2 = 0

\* The tokens "#", "#" and "##[P]" were joined to "####[P]", where the
\* first marker is formed by two tokens, and "[P]" was returned.
C24_Witness ==
    /\ op = "decode"
    /\ locals.tokens = << <<"#">>, <<"#">>, <<"#", "#", "[", "P", "]">> >>
    /\ locals.joined = <<"#", "#", "#", "#", "[", "P", "]">>
    /\ ret = <<"[", "P", "]">>

\* ---------------------------------------------------- grayscale round trip

\* The names of the operations in a pixel history.
OpsOf(pixels) == [i \in 1..Len(pixels) |-> pixels[i].op]

\* The pixel history of the argument once it is an image: its own, with the
\* opening of the file when it is a path.
SourceOps(x) ==
    IF x.mode = "str" THEN OpsOf(x.pixels) \o <<"open">> ELSE OpsOf(x.pixels)

\* C25: in every call, on a path or on a loaded image of any mode, the image
\* handed to process is the argument converted to "L" and then to "RGB";
\* process resizes, rescales and normalizes that image, and the encoder is
\* run after it on exactly these pixel values.
C25_RoundTripFirst ==
    pc # "idle" =>
        LET n == Len(SourceOps(image_path))
        IN  /\ image.mode = "RGB"
            /\ OpsOf(image.pixels) = SourceOps(image_path) \o <<"convert", "convert">>
            /\ image.pixels[n + 1].mode = "L"
            /\ image.pixels[n + 2].mode = "RGB"
            /\ OpsOf(pixel_values.data) =
                   OpsOf(image.pixels) \o <<"resize", "rescale", "normalize">>
            /\ SubSeq(pixel_values.data, 1, n + 2) = image.pixels
            /\ pc = "run_encoder" => runs = <<>>
            /\ \A k \in 1..Len(runs) :
                   runs[k].session = "encoder" =>
                       /\ k = 1
                       /\ runs[k].inputs.pixel_values = pixel_values

\* The encoder was run on a CMYK file given as a path: opened, converted to
\* "L", to "RGB", then processed.
C25_Witness ==
    /\ pc = "loop"
    /\ image_path.mode = "str"
    /\ image_path.pixels[1].mode = "CMYK"
    /\ OpsOf(runs[1].inputs.pixel_values.data) =
           <<"file", "open", "convert", "convert", "resize", "rescale", "normalize">>
    /\ runs[1].inputs.pixel_values.data[3].mode = "L"

\* ------------------------------------------------- engine and reference

\* C26: on every string, post_process of the engine and lines 33-35 of
\* base.py give the same string, and the same string after each of the
\* three steps: whitespace removed, ellipsis replaced by three periods, runs
\* of two or more middle-dots and periods replaced by as many periods.
C26_SameAsBase ==
    /\ op = "post_process" => (ret = BaseTexts(arg)[3] /\ locals = BaseTexts(arg))
    /\ op = "base" => (ret = post_process(arg) /\ locals = PostTexts(arg))

\* post_process was given two middle-dots with a space between them, an
\* ellipsis and "a", and returned five periods and "a", as base.py does.
C26_Witness ==
    /\ op = "post_process"
    /\ arg = <<"MIDDLE_DOT", " ", "MIDDLE_DOT", "ELLIPSIS", "a">>
    /\ ret = <<".", ".", ".", ".", ".", "a">>
    /\ BaseTexts(arg)[3] = ret

\* -------------------------------------------------------------- idempotence

\* Position i of s holds a middle-dot next to a middle-dot or a period.
DotBesideMiddleDot(s, i) ==
    /\ s[i] = "MIDDLE_DOT"
    /\ \/ (i > 1 /\ s[i - 1] \in DotClass)
       \/ (i < Len(s) /\ s[i + 1] \in DotClass)

\* C27: post_process applied to its own result gives that result again, and
\* the result holds no whitespace character, no ellipsis character and no
\* middle-dot next to a middle-dot or a period.
C27_Idempotent ==
    op = "post_process" =>
        /\ post_process(ret) = ret
        /\ PostTexts(ret) = <<ret, ret, ret>>
        /\ \A i \in 1..Len(ret) :
               /\ ret[i] \notin Whitespace
               /\ ret[i] # "ELLIPSIS"
               /\ ~DotBesideMiddleDot(ret, i)

\* post_process turned a middle-dot, a space and an ellipsis into four
\* periods and kept the single middle-dot after "a".
C27_Witness ==
    /\ op = "post_process"
    /\ arg = <<"MIDDLE_DOT", " ", "ELLIPSIS", "a", "MIDDLE_DOT">>
    /\ ret = <<".", ".", ".", ".", "a", "MIDDLE_DOT">>
    /\ post_process(ret) = ret

\* ------------------------------------------------- special ids and strings

\* The tokens of the ids of token_ids that are in the vocabulary, without
\* those that are a configured special-token string when skip is set.
TokensByString(token_ids, skip) ==
    LET in_range == SelectSeq(token_ids, LAMBDA id : id \in DOMAIN tokenizer.id_to_token)
        toks     == [i \in 1..Len(in_range) |-> tokenizer.id_to_token[in_range[i]]]
    IN  IF skip THEN SelectSeq(toks, LAMBDA t : t \notin ConfiguredSpecials) ELSE toks

\* The special-token ids of the configuration.
ConfiguredIds == {config.special_tokens[n].id : n \in SpecialNames}

\* C28: whatever ids config.json gives the special tokens, decode keeps
\* exactly the tokens that are no configured special-token string (all
\* tokens without skip_special_tokens), so an id is dropped for its string
\* also when it is no configured id and kept when it is one, and the result
\* is the one decode gives under the configuration with the ids of
\* SampleSpecialTokens.
C28_SkipByString ==
    op = "decode" =>
        /\ locals.tokens = TokensByString(arg.token_ids, arg.skip_special_tokens)
        /\ ret = decode(NewTokenizer(VocabFile, SampleConfig(<<2, 1>>, 0, 1, 1)),
                        arg.token_ids, arg.skip_special_tokens)
        /\ tokenizer.special_token_set = ConfiguredSpecials

\* Every special token has the configured id 0, whose token is "a"; id 1 is
\* "[P]": decode of [0, 1, 0] dropped id 1 and returned "aa".
C28_Witness ==
    /\ op = "decode"
    /\ ConfiguredIds = {0}
    /\ tokenizer.id_to_token[0] = <<"a">>
    /\ tokenizer.id_to_token[1] = <<"[", "P", "]">>
    /\ arg.token_ids = <<0, 1, 0>>
    /\ arg.skip_special_tokens
    /\ ret = <<"a", "a">>

\* ------------------------------------------------- max_length not positive

\* config.json of the model directory gives a max_length of zero or less.
LimitNotPositive == artifacts.config.value.model.max_length <= 0

\* The runs of the current call are one encoder run and nothing else.
OnlyEncoderRan ==
    /\ Len(runs) = 1
    /\ runs[1].session = "encoder"
    /\ runs[1].ok

\* C29: with max_length <= 0 in config.json, construction raises nothing
\* and binds the engine; a call on it raises nothing, runs the encoder once
\* and the decoder never, leaves the loop by exhaustion with only the start
\* id generated, and returns the empty string.
C29_NonPositiveLimit ==
    LimitNotPositive =>
        /\ init_pc # "raised"
        /\ init_error = None
        /\ init_pc = "done" => ocr = "MangaOCR" /\ max_length <= 0
        /\ pc # "raised"
        /\ error = None
        /\ decoder_session = EmptyGraph
        /\ pc \in {"loop", "after_loop", "returned"} =>
              /\ OnlyEncoderRan
              /\ generated_ids = <<decoder_start_token_id>>
        /\ pc \in {"after_loop", "returned"} => loop_exit = "exhausted"
        /\ pc = "returned" => text = <<>>
        /\ \A i \in DOMAIN returned : returned[i].result = <<>>

\* An engine constructed with max_length 0 returned "" from its second
\* call, after one encoder run.
C29_Witness ==
    /\ LimitNotPositive
    /\ init_pc = "done"
    /\ max_length = 0
    /\ calls = 2
    /\ pc = "returned"
    /\ OnlyEncoderRan
    /\ text = <<>>

\* --------------------------------------------- the frontend dev server

\* C30 as stated: when desktop_dev has ended after spawning the frontend
\* process, cleanup_frontend was invoked at least once and the process is
\* not running.
C30_Original ==
    (DevEnded /\ frontend_process.started) =>
        /\ cleanups >= 1
        /\ ~frontend_process.running

\* The invocation alone: every end of desktop_dev after the spawn comes
\* after a call of cleanup_frontend.
C30_CleanupInvoked ==
    (DevEnded /\ frontend_process.started) => cleanups >= 1

\* desktop_dev returned True on Windows after one cleanup_frontend, and
\* the frontend process runs.
C30_LeftRunning ==
    /\ dev_pc = "returned"
    /\ dev_ret.value
    /\ platform = "windows"
    /\ cleanups = 1
    /\ frontend_process.running

\* The script was terminated by its own killpg, and the frontend process
\* runs.
C30_Terminated ==
    /\ dev_pc = "killed"
    /\ cleanups = 1
    /\ frontend_process.running



====
